---- MODULE Spec2Model ----
(***************************************************************************)
(* Model of the nirs4all workspace backend (src/api/workspace_manager.py   *)
(* and the routes of src/api/workspace.py that touch the catalog).         *)
(*                                                                         *)
(* A WorkspaceManager keeps the catalog of the selected workspace in       *)
(* memory (_workspace_config) and writes the whole document to             *)
(* <workspace>/workspace.json after a mutation.  Every handler runs to     *)
(* completion (the routes are async functions without an await inside),    *)
(* so a handler is one atomic action.                                      *)
(*                                                                         *)
(* Abstractions: identifiers "dataset_n" / "group_n" are the number n;     *)
(* a resolved dataset path is a number; timestamps and display names are   *)
(* left out; the dimensions of a dataset are a label naming the code path  *)
(* that computed them.                                                     *)
(***************************************************************************)
EXTENDS Integers, Sequences, FiniteSets, TLC

\* ------------------------------------------------------------------ bounds
NumPaths == 2          \* dataset folders that hold data files
MaxGroups == 2         \* create_group is offered while fewer groups exist
MaxWriteFailures == 1  \* writes of workspace.json the environment may fail
MaxFiles == 2          \* files results/*/predictions.json
MaxRecords == 2        \* elements of the array in one predictions.json
MaxSources == 3        \* feature files the resolver reports for one side
MaxName == 2           \* characters in the name of a pipeline
MaxPipelines == 2      \* files pipelines/*.json

VARIABLES
    workspace_config,  \* per manager: _current_workspace_path (current) and
                       \* _workspace_config (the other fields)
    workspace_json,    \* per workspace folder: the file workspace.json
    pointer,           \* workspace_config.json of the application data folder
    subfolders,        \* per workspace folder: results/ and pipelines/ exist
    failures,          \* failed writes so far
    writer,            \* history: the manager whose document the file holds
                       \* (0: none, the file is missing or a write failed)
    results,           \* the files results/*/predictions.json of the current
                       \* workspace, in the order glob enumerates them
    dataset_folders,   \* per data folder: the files the resolver finds in it
    pipeline_files     \* the names of the files pipelines/*.json of the
                       \* current workspace (without the extension)

vars == <<workspace_config, workspace_json, pointer, subfolders, failures,
          writer, results, dataset_folders, pipeline_files>>

\* ------------------------------------------------------------ environment
Managers == {1, 2}     \* process instances sharing the workspace folder

\* Workspace folders.  A workspace path is a number: 0 is the empty string,
\* the folders come next, then a path that does not exist, a path that is a
\* file, and the place a copied workspace folder came from.
WorkspaceDirs == {1, 2}
MissingWorkspace == 3
FileWorkspace == 4
CopiedFrom == 5
\* A request path is a spelling of a workspace path.
WorkspacePaths ==
    [dir : WorkspaceDirs \cup {MissingWorkspace, FileWorkspace},
     spelling : {"abs", "rel"}]
\* The request paths of a session that works in one workspace folder.
OneWorkspace == {[dir |-> d, spelling |-> "abs"] : d \in {1, MissingWorkspace}}
\* workspace_path.exists() and workspace_path.is_dir()
ExistsWorkspace(dir) == dir # MissingWorkspace
IsDir(dir) == dir \in WorkspaceDirs

DataDirs == 1..NumPaths          \* folders in which the resolver finds files
EmptyDir == NumPaths + 1         \* an existing folder without data files
MissingDir == NumPaths + 2       \* a path that does not exist
\* A request path is a spelling of a folder ("rel": relative, "abs": absolute).
RawPaths == [dir : 1..(NumPaths + 2), spelling : {"abs", "rel"}]
\* The request paths that name two data folders, the empty and the missing one.
FewPaths == {raw \in RawPaths : raw.dir \in {1, 2, EmptyDir, MissingDir}}

\* The request path of one data folder.
OneDataset == {raw \in RawPaths : raw.dir = 2 /\ raw.spelling = "abs"}

\* Path(dataset_path).resolve(): every spelling of a folder gives one string.
Resolve(raw) == raw.dir
\* Path(dataset_path).exists()
Exists(dir) == dir # MissingDir
\* parser_mod.parse_config(dataset_path): TRUE when a configuration is found.
parse_config(dir) == dir \in DataDirs

\* A data file: a table of rows x cols, a one-dimensional array of rows
\* elements, or a file that cannot be read.
Table(rows, cols) == [kind |-> "table", rows |-> rows, cols |-> cols]
Array1d(rows) == [kind |-> "array1d", rows |-> rows, cols |-> 0]
Unreadable == [kind |-> "unreadable", rows |-> 0, cols |-> 0]
\* What the resolver reports for a role (train_x, test_y, ...): nothing, one
\* path, or a list of paths.
NoRole == [kind |-> "none", files |-> <<>>]
OnePath(file) == [kind |-> "str", files |-> <<file>>]
PathList(files) == [kind |-> "list", files |-> files]
\* The configuration the resolver reports for a data folder.
ParsedConfig(train_x, test_x, train_y, test_y, train_group, x_source_mode) ==
    [train_x |-> train_x, test_x |-> test_x, train_y |-> train_y,
     test_y |-> test_y, train_group |-> train_group, test_group |-> NoRole,
     x_source_mode |-> x_source_mode]
\* A folder with one table of features and one array of targets.
PlainFolder ==
    ParsedConfig(OnePath(Table(100, 50)), NoRole, OnePath(Array1d(100)), NoRole,
                 NoRole, "absent")
PlainFolders == [d \in DataDirs |-> PlainFolder]

DatasetIds == 1..(NumPaths + 1)  \* dataset identifiers a request may name
GroupIds == 1..(MaxGroups + 1)   \* group identifiers a request may name
MemberIds == {1, 2}              \* dataset identifiers offered to a group
Configs == {"cfgA"}              \* config objects a request may carry
Files == {"train_x", "no_train_x"} \* file mappings: with / without a train_x
Names == {"nameA", "nameB"}      \* group names

\* ---------------------------------------------------------------- catalog
\* The state of a manager: current is _current_workspace_path (0: None),
\* the other fields are _workspace_config; selected = FALSE stands for
\* _workspace_config = None.
NoConfig ==
    [selected |-> FALSE, current |-> 0, path |-> 0, datasets |-> <<>>,
     pipelines |-> <<>>, groups |-> <<>>]

\* _create_default_workspace_config: the path of the folder, empty datasets,
\* pipelines (and groups).
DefaultConfig(workspace_path) ==
    [selected |-> TRUE, current |-> workspace_path, path |-> workspace_path,
     datasets |-> <<>>, pipelines |-> <<>>, groups |-> <<>>]

\* workspace.json: missing, unparseable ("corrupt": json.load or from_dict
\* raises), a document ("ok"), or a document of an older version that has
\* no "groups" key ("legacy": its groups field is not in the file).
MissingFile ==
    [state |-> "missing", path |-> 0, datasets |-> <<>>, pipelines |-> <<>>,
     groups |-> <<>>]
CorruptFile ==
    [state |-> "corrupt", path |-> 0, datasets |-> <<>>, pipelines |-> <<>>,
     groups |-> <<>>]
Parseable == {"ok", "legacy"}

\* A to_dict that leaves the groups out of the document.
to_dict_without_groups(cfg) ==
    [state |-> "legacy", path |-> cfg.path, datasets |-> cfg.datasets,
     pipelines |-> cfg.pipelines, groups |-> <<>>]

\* WorkspaceConfig.to_dict / json.dump: the document of a catalog, every
\* field of the dataclass written.
to_dict(cfg) ==
    [state |-> "ok", path |-> cfg.path, datasets |-> cfg.datasets,
     pipelines |-> cfg.pipelines, groups |-> cfg.groups]

\* WorkspaceConfig.from_dict: the catalog of a document; path is the path
\* the document records, a missing "groups" key gives the empty list.  The
\* caller holds _current_workspace_path.
from_dict(doc) ==
    [selected |-> TRUE, current |-> 0, path |-> doc.path,
     datasets |-> doc.datasets, pipelines |-> doc.pipelines,
     groups |-> IF doc.state = "legacy" THEN <<>> ELSE doc.groups]

\* Outcomes of a write of workspace.json the environment may choose.
Reliable == {"ok"}
Writes == {"ok"} \cup
    (IF failures < MaxWriteFailures THEN {"open_failed", "dump_failed"} ELSE {})

\* A save that patches the datasets into the document found on disk instead
\* of overwriting the whole document.
save_workspace_config_patch(cfg, w) ==
    IF ~cfg.selected \/ cfg.current = 0 THEN workspace_json
    ELSE [workspace_json EXCEPT ![cfg.current] =
            IF w = "ok"
            THEN [state |-> "ok", path |-> cfg.path, datasets |-> cfg.datasets,
                  pipelines |-> @.pipelines, groups |-> @.groups]
            ELSE IF w = "open_failed" THEN @
            ELSE CorruptFile]

\* _save_workspace_config: the files after saving cfg into the folder
\* _current_workspace_path with write outcome w.  open(..., 'w') failing
\* leaves the file; json.dump failing after the open leaves a truncated
\* document.  The exception is printed, not raised.
save_workspace_config(cfg, w) ==
    IF ~cfg.selected \/ cfg.current = 0 THEN workspace_json
    ELSE [workspace_json EXCEPT ![cfg.current] =
            IF w = "ok" THEN to_dict(cfg)
            ELSE IF w = "open_failed" THEN @
            ELSE CorruptFile]

\* _save_current_workspace: workspace_config.json after writing the path
\* workspace_path with write outcome pw (0: no file, or an unparseable one).
\* The exception is printed, not raised.
save_current_workspace(workspace_path, pw) ==
    IF pw = "ok" THEN workspace_path
    ELSE IF pw = "open_failed" THEN pointer
    ELSE 0

\* ----------------------------------------------------------------- helpers
\* A handler is a function of the catalog in memory and of its request: it
\* yields the catalog it leaves in memory (cfg), what it hands to its caller
\* (val: a tag for a normal return, "true" / "false" / "None" for those
\* values, the exception otherwise) and whether it reached
\* _save_workspace_config (save).
Out(cfg, val, save) == [cfg |-> cfg, val |-> val, save |-> save]

\* Values of val with which the route answers "success": True.
Success == {"selected", "linked", "true", "refreshed", "loaded", "updated",
            "created"}

\* Index of the first element of seq whose id is id, 0 when there is none.
FirstIndex(seq, id) ==
    IF \E i \in 1..Len(seq) : seq[i].id = id
    THEN CHOOSE i \in 1..Len(seq) :
            /\ seq[i].id = id
            /\ \A j \in 1..(i - 1) : seq[j].id # id
    ELSE 0

\* [x for x in seq if x["id"] != id]
WithoutId(seq, id) == SelectSeq(seq, LAMBDA x : x.id # id)

\* ------------------------------------------------------------- operations
\* A _load_workspace_config that takes a document without "groups" for an
\* unparseable one.
load_workspace_config_strict(workspace_path) ==
    IF workspace_json[workspace_path].state = "ok"
    THEN Out([from_dict(workspace_json[workspace_path])
                EXCEPT !.current = workspace_path], "selected", TRUE)
    ELSE Out(DefaultConfig(workspace_path), "selected", TRUE)

\* _load_workspace_config with _current_workspace_path = workspace_path: the
\* catalog of the document on disk, or the default catalog when the file is
\* missing or unparseable; either is saved.
load_workspace_config(workspace_path) ==
    IF workspace_json[workspace_path].state \in Parseable
    THEN Out([from_dict(workspace_json[workspace_path])
                EXCEPT !.current = workspace_path], "selected", TRUE)
    ELSE Out(DefaultConfig(workspace_path), "selected", TRUE)

\* set_workspace; Path.resolve() gives one string for every spelling.
set_workspace(cfg, raw) ==
    IF ~ExistsWorkspace(raw.dir) THEN Out(cfg, "InvalidPath", FALSE)
    ELSE IF ~IsDir(raw.dir) THEN Out(cfg, "InvalidPath", FALSE)
    ELSE load_workspace_config(raw.dir)

\* A new process that does not read the pointer file.
load_current_workspace_forgetful == Out(NoConfig, "None", FALSE)

\* __init__ / _load_current_workspace of a new process: the workspace the
\* pointer file names, when that path exists; nothing selected otherwise.
load_current_workspace ==
    IF pointer # 0 /\ ExistsWorkspace(pointer)
    THEN load_workspace_config(pointer)
    ELSE Out(NoConfig, "None", FALSE)

\* _inspect_data_file: (rows, columns); (0, 0) for a file that cannot be read.
inspect_data_file(file) ==
    IF file.kind = "table" THEN <<file.rows, file.cols>>
    ELSE IF file.kind = "array1d" THEN <<file.rows, 1>>
    ELSE <<0, 0>>

\* _first_x_path / _first_y_path over the roles train and test: the first
\* path of the first role that has one; <<>> stands for None.
first_path(train, test) ==
    IF train.files # <<>> THEN <<train.files[1]>>
    ELSE IF test.files # <<>> THEN <<test.files[1]>>
    ELSE <<>>

\* x_candidates: the paths of train_x, then those of test_x.
x_candidates(cfg) == cfg.train_x.files \o cfg.test_x.files

RECURSIVE sum(_)
sum(fps) == IF fps = <<>> THEN 0 ELSE Head(fps) + sum(Tail(fps))

\* The dimensions link_dataset derives from the parsed configuration of the
\* folder: those of the first feature file and of the first target file,
\* then, when there are candidates, the per-source feature counts, the
\* feature count of the combination mode and the rows of the first
\* candidate that has some.  num_features_per_source <<>> stands for a key
\* that is not written.
inspect_dataset(cfg) ==
    LET x_path == first_path(cfg.train_x, cfg.test_x)
        y_path == first_path(cfg.train_y, cfg.test_y)
        first_x == IF x_path = <<>> THEN <<0, 0>> ELSE inspect_data_file(x_path[1])
        num_targets == IF y_path = <<>> THEN 0 ELSE inspect_data_file(y_path[1])[2]
        candidates == x_candidates(cfg)
        shapes == [i \in 1..Len(candidates) |-> inspect_data_file(candidates[i])]
        fps == [i \in 1..Len(shapes) |-> shapes[i][2]]
        with_rows == SelectSeq(shapes, LAMBDA shape : shape[1] # 0)
    IN [num_samples |-> IF with_rows # <<>> THEN with_rows[1][1] ELSE first_x[1],
        num_features |-> IF fps = <<>> THEN first_x[2]
                         ELSE IF cfg.x_source_mode = "concat" THEN sum(fps)
                         ELSE fps[1],
        num_targets |-> num_targets,
        sources |-> IF candidates # <<>> THEN Len(candidates) ELSE 1,
        num_features_per_source |-> fps]

\* link_dataset without the "Check if already linked" loop.
link_dataset_unchecked(cfg, raw) ==
    LET dataset_path == Resolve(raw)
        dataset_info == [id |-> Len(cfg.datasets) + 1, path |-> dataset_path,
                         dims |-> "inspected", config |-> "none",
                         files |-> "none", last_loaded |-> FALSE,
                         inspected |-> inspect_dataset(dataset_folders[dataset_path])]
    IN IF ~cfg.selected THEN Out(cfg, "NoWorkspace", FALSE)
       ELSE IF ~Exists(dataset_path) THEN Out(cfg, "InvalidPath", FALSE)
       ELSE IF ~parse_config(dataset_path)
            THEN Out(cfg, "UnresolvableDataset", FALSE)
       ELSE Out([cfg EXCEPT !.datasets = Append(@, dataset_info)], "linked", TRUE)

\* A link_dataset that a feature file it cannot read makes fail.
link_dataset_strict(cfg, raw) ==
    LET dataset_path == Resolve(raw)
        dataset_info == [id |-> Len(cfg.datasets) + 1, path |-> dataset_path,
                         dims |-> "inspected", config |-> "none",
                         files |-> "none", last_loaded |-> FALSE,
                         inspected |-> inspect_dataset(dataset_folders[dataset_path])]
    IN IF ~cfg.selected THEN Out(cfg, "NoWorkspace", FALSE)
       ELSE IF ~Exists(dataset_path) THEN Out(cfg, "InvalidPath", FALSE)
       ELSE IF ~parse_config(dataset_path)
            THEN Out(cfg, "UnresolvableDataset", FALSE)
       ELSE IF \E i \in 1..Len(x_candidates(dataset_folders[dataset_path])) :
                    x_candidates(dataset_folders[dataset_path])[i] = Unreadable
            THEN Out(cfg, "LoadFailed", FALSE)
       ELSE IF \E i \in 1..Len(cfg.datasets) : cfg.datasets[i].path = dataset_path
            THEN Out(cfg, "AlreadyLinked", FALSE)
       ELSE Out([cfg EXCEPT !.datasets = Append(@, dataset_info)], "linked", TRUE)

\* link_dataset: the checks in the order of the code; the identifier is
\* "dataset_{len + 1}".
link_dataset(cfg, raw) ==
    LET dataset_path == Resolve(raw)
        dataset_info == [id |-> Len(cfg.datasets) + 1, path |-> dataset_path,
                         dims |-> "inspected", config |-> "none",
                         files |-> "none", last_loaded |-> FALSE,
                         inspected |-> inspect_dataset(dataset_folders[dataset_path])]
    IN IF ~cfg.selected THEN Out(cfg, "NoWorkspace", FALSE)
       ELSE IF ~Exists(dataset_path) THEN Out(cfg, "InvalidPath", FALSE)
       ELSE IF ~parse_config(dataset_path)
            THEN Out(cfg, "UnresolvableDataset", FALSE)
       ELSE IF \E i \in 1..Len(cfg.datasets) : cfg.datasets[i].path = dataset_path
            THEN Out(cfg, "AlreadyLinked", FALSE)
       ELSE Out([cfg EXCEPT !.datasets = Append(@, dataset_info)], "linked", TRUE)

\* An unlink_dataset that also takes the identifier out of the groups.
unlink_dataset_cascading(cfg, dataset_id) ==
    LET kept == WithoutId(cfg.datasets, dataset_id)
    IN IF ~cfg.selected THEN Out(cfg, "NoWorkspace", FALSE)
       ELSE IF Len(kept) = Len(cfg.datasets) THEN Out(cfg, "false", FALSE)
       ELSE Out([cfg EXCEPT !.datasets = kept,
                            !.groups = [g \in 1..Len(cfg.groups) |->
                                [cfg.groups[g] EXCEPT !.dataset_ids =
                                    SelectSeq(@, LAMBDA d : d # dataset_id)]]],
                "true", TRUE)

\* unlink_dataset.
unlink_dataset(cfg, dataset_id) ==
    LET kept == WithoutId(cfg.datasets, dataset_id)
    IN IF ~cfg.selected THEN Out(cfg, "NoWorkspace", FALSE)
       ELSE IF Len(kept) = Len(cfg.datasets) THEN Out(cfg, "false", FALSE)
       ELSE Out([cfg EXCEPT !.datasets = kept], "true", TRUE)

\* source_id None.
NoSourceId == 0 - 1

\* The entries detect_dataset_files makes for the value of one role.
file_entries_any_list(value, file_type, partition) ==
    [idx \in 1..Len(value.files) |->
        [path |-> value.files[idx], type |-> file_type, partition |-> partition,
         source_id |-> IF value.kind = "list" /\ Len(value.files) > 1
                       THEN idx - 1 ELSE NoSourceId]]
file_entries(value, file_type, partition) ==
    [idx \in 1..Len(value.files) |->
        [path |-> value.files[idx], type |-> file_type, partition |-> partition,
         source_id |-> IF value.kind = "list" /\ file_type = "x"
                          /\ Len(value.files) > 1
                       THEN idx - 1 ELSE NoSourceId]]

\* detect_dataset_files; parser is what loading and running the resolver
\* does ("ok", "raised").  files is the list returned.
detect_dataset_files(cfg, dataset_id, parser) ==
    LET i == FirstIndex(cfg.datasets, dataset_id)
        folder == dataset_folders[cfg.datasets[i].path]
    IN IF ~cfg.selected
       THEN [cfg |-> cfg, val |-> "NoWorkspace", save |-> FALSE, files |-> <<>>]
       ELSE IF i = 0
            THEN [cfg |-> cfg, val |-> "NotFound", save |-> FALSE, files |-> <<>>]
       ELSE IF parser # "ok" \/ ~parse_config(cfg.datasets[i].path)
            THEN [cfg |-> cfg, val |-> "detected", save |-> FALSE, files |-> <<>>]
       ELSE [cfg |-> cfg, val |-> "detected", save |-> FALSE,
             files |-> file_entries(folder.train_x, "x", "train")
                       \o file_entries(folder.test_x, "x", "test")
                       \o file_entries(folder.train_y, "y", "train")
                       \o file_entries(folder.test_y, "y", "test")
                       \o file_entries(folder.train_group, "group", "train")
                       \o file_entries(folder.test_group, "group", "test")]

\* refresh_dataset; outcome is what DatasetConfigs([path]).get_datasets() does.
refresh_dataset(cfg, dataset_id, outcome) ==
    LET i == FirstIndex(cfg.datasets, dataset_id)
    IN IF ~cfg.selected THEN Out(cfg, "NoWorkspace", FALSE)
       ELSE IF i = 0 THEN Out(cfg, "None", FALSE)
       ELSE IF outcome # "refreshed" THEN Out(cfg, "None", FALSE)
       ELSE Out([cfg EXCEPT !.datasets[i].dims = "refreshed"], "refreshed", TRUE)

\* The dataset record after dataset_info.update(update_payload) in
\* load_dataset_info, dims being the dimensions computed so far.
update_payload(d, config, files, dims) ==
    [d EXCEPT !.config = config, !.files = files, !.dims = dims,
              !.last_loaded = TRUE]

\* load_dataset_info; files tells whether the mapping holds a train_x entry,
\* outcome is what the train-side load does:
\*   "loaded"             handle_data and the dimension computation succeed
\*   "handle_data_raised" loader_mod.handle_data raises
\*   "dims_raised"        handle_data returns, computing the dimensions raises
\* The update of the record sits inside the except block of the load: it
\* runs only after a failure, and there it reads features_per_source, which
\* is unbound (the handler raises) when handle_data itself raised.
load_dataset_info(cfg, dataset_id, config, files, outcome) ==
    LET i == FirstIndex(cfg.datasets, dataset_id)
    IN IF ~cfg.selected THEN Out(cfg, "NoWorkspace", FALSE)
       ELSE IF i = 0 THEN Out(cfg, "NotFound", FALSE)
       ELSE IF files # "train_x" THEN Out(cfg, "loaded", TRUE)
       ELSE IF outcome = "loaded" THEN Out(cfg, "loaded", TRUE)
       ELSE IF outcome = "handle_data_raised" THEN Out(cfg, "raised", FALSE)
       ELSE Out([cfg EXCEPT !.datasets[i] =
                       update_payload(@, config, files, "partial")],
                "loaded", TRUE)

\* update_dataset_config without its call of _save_workspace_config.
update_dataset_config_unsaved(cfg, dataset_id, config) ==
    LET i == FirstIndex(cfg.datasets, dataset_id)
    IN IF ~cfg.selected THEN Out(cfg, "NoWorkspace", FALSE)
       ELSE IF i = 0 THEN Out(cfg, "NotFound", FALSE)
       ELSE Out([cfg EXCEPT !.datasets[i].config = config], "updated", FALSE)

\* update_dataset_config (route of workspace.py).
update_dataset_config(cfg, dataset_id, config) ==
    LET i == FirstIndex(cfg.datasets, dataset_id)
    IN IF ~cfg.selected THEN Out(cfg, "NoWorkspace", FALSE)
       ELSE IF i = 0 THEN Out(cfg, "NotFound", FALSE)
       ELSE Out([cfg EXCEPT !.datasets[i].config = config], "updated", TRUE)

\* create_group.
create_group(cfg, name) ==
    LET group == [id |-> Len(cfg.groups) + 1, name |-> name, dataset_ids |-> <<>>]
    IN IF ~cfg.selected THEN Out(cfg, "NoWorkspace", FALSE)
       ELSE Out([cfg EXCEPT !.groups = Append(@, group)], "created", TRUE)

\* rename_group.
rename_group(cfg, group_id, new_name) ==
    LET i == FirstIndex(cfg.groups, group_id)
    IN IF ~cfg.selected THEN Out(cfg, "NoWorkspace", FALSE)
       ELSE IF i = 0 THEN Out(cfg, "false", FALSE)
       ELSE Out([cfg EXCEPT !.groups[i].name = new_name], "true", TRUE)

\* delete_group.
delete_group(cfg, group_id) ==
    LET kept == WithoutId(cfg.groups, group_id)
    IN IF ~cfg.selected THEN Out(cfg, "NoWorkspace", FALSE)
       ELSE IF Len(kept) # Len(cfg.groups)
            THEN Out([cfg EXCEPT !.groups = kept], "true", TRUE)
       ELSE Out(cfg, "false", FALSE)

\* dataset_id in g["dataset_ids"]
Member(dataset_id, dataset_ids) ==
    \E k \in 1..Len(dataset_ids) : dataset_ids[k] = dataset_id

\* add_dataset_to_group.
add_dataset_to_group(cfg, group_id, dataset_id) ==
    LET i == FirstIndex(cfg.groups, group_id)
    IN IF ~cfg.selected THEN Out(cfg, "NoWorkspace", FALSE)
       ELSE IF i = 0 THEN Out(cfg, "false", FALSE)
       ELSE IF ~Member(dataset_id, cfg.groups[i].dataset_ids)
            THEN Out([cfg EXCEPT !.groups[i].dataset_ids = Append(@, dataset_id)],
                     "true", TRUE)
       ELSE Out(cfg, "true", FALSE)

\* remove_dataset_from_group.
remove_dataset_from_group(cfg, group_id, dataset_id) ==
    LET i == FirstIndex(cfg.groups, group_id)
    IN IF ~cfg.selected THEN Out(cfg, "NoWorkspace", FALSE)
       ELSE IF i = 0 THEN Out(cfg, "false", FALSE)
       ELSE IF Member(dataset_id, cfg.groups[i].dataset_ids)
            THEN Out([cfg EXCEPT !.groups[i].dataset_ids =
                            SelectSeq(@, LAMBDA d : d # dataset_id)],
                     "true", TRUE)
       ELSE Out(cfg, "true", FALSE)

\* get_current_workspace: the catalog held in memory.
get_current_workspace(cfg) == cfg

\* get_groups: the groups of the catalog held in memory.
get_groups(cfg) == IF ~cfg.selected THEN <<>> ELSE cfg.groups

\* ----------------------------------------------------------------- routes
\* What a route answers for the value or the exception val of the manager:
\* the HTTP status and the detail (or message) of the body.
Response(status, detail) == [status |-> status, detail |-> detail]
\* DELETE /datasets/{dataset_id}
unlink_dataset_route(val) ==
    CASE val = "true" -> Response(200, "Dataset unlinked successfully")
      [] val = "false" -> Response(404, "Dataset not found")
      [] val = "NoWorkspace" -> Response(409, "No workspace selected")
\* POST /datasets/{dataset_id}/refresh
refresh_dataset_route(val) ==
    CASE val = "refreshed" -> Response(200, "Dataset refreshed successfully")
      [] val = "None" -> Response(404, "Dataset not found or refresh failed")
      [] val = "NoWorkspace" -> Response(409, "No workspace selected")
\* POST /workspace/dataset/{dataset_id}/detect-files
detect_dataset_files_route(val) ==
    CASE val = "detected" -> Response(200, "files")
      [] val = "NotFound" -> Response(500, "Failed to detect files: Dataset not found")
      [] val = "NoWorkspace" ->
            Response(500, "Failed to detect files: No workspace selected")
\* POST /workspace/dataset/{dataset_id}/load
load_dataset_info_route(val) ==
    CASE val = "loaded" -> Response(200, "dataset")
      [] val = "NotFound" -> Response(500, "Failed to load dataset: Dataset not found")
      [] val = "raised" -> Response(500, "Failed to load dataset: error of the load")
      [] val = "NoWorkspace" ->
            Response(500, "Failed to load dataset: No workspace selected")
\* PUT, DELETE /workspace/groups/{group_id} and its /datasets routes
group_route(val) ==
    CASE val = "true" -> Response(200, "success")
      [] val = "false" -> Response(404, "Group not found")
      [] val = "NoWorkspace" -> Response(500, "Failed: No workspace selected")

\* Two link requests in flight at once in one backend process.  Each route
\* is a coroutine without a suspension point and the server runs one event
\* loop, so one handler runs from its first line to its return before the
\* other starts, on the one manager of the process; the requests may be
\* taken in either order.  An outcome: what each request is answered, the
\* catalog left in memory and the document left on disk.
links_in_turn(cfg, first, second, earlier, later) ==
    LET o1 == link_dataset(cfg, first)
        o2 == link_dataset(o1.cfg, second)
    IN [vals |-> (earlier :> o1.val) @@ (later :> o2.val),
        cfg |-> o2.cfg,
        document |-> IF o2.save THEN to_dict(o2.cfg)
                     ELSE IF o1.save THEN to_dict(o1.cfg)
                     ELSE workspace_json[cfg.current]]
\* Handlers that both read the catalog before either has changed it.
overlapping_links_interleaved(cfg, raw1, raw2) ==
    {[vals |-> (1 :> link_dataset(cfg, raw1).val) @@ (2 :> link_dataset(cfg, raw2).val),
      cfg |-> link_dataset(cfg, pair[2]).cfg,
      document |-> to_dict(link_dataset(cfg, pair[2]).cfg)] :
        pair \in {<<raw1, raw2>>, <<raw2, raw1>>}}
overlapping_links(cfg, raw1, raw2) ==
    {links_in_turn(cfg, raw1, raw2, 1, 2), links_in_turn(cfg, raw2, raw1, 2, 1)}

\* ---------------------------------------------------------------- actions
\* The workspace.json files after a handler that ended as out, its write
\* ending as w.
DiskAfter(out, w) ==
    IF out.save THEN save_workspace_config(out.cfg, w) ELSE workspace_json

\* Manager m ends a handler as out: the catalog, the file and the history.
Effect(m, out, w) ==
    /\ workspace_config' = [workspace_config EXCEPT ![m] = out.cfg]
    /\ workspace_json' = DiskAfter(out, w)
    /\ writer' = IF ~out.save THEN writer ELSE IF w = "ok" THEN m ELSE 0

\* Manager m runs a handler of the catalog that ends as out.
Handle(m, out, w) ==
    /\ Effect(m, out, w)
    /\ failures' = IF out.save /\ w # "ok" THEN failures + 1 ELSE failures
    /\ UNCHANGED <<pointer, subfolders, results, dataset_folders, pipeline_files>>

\* The folders after _load_workspace_config ended as out: creating the
\* default catalog makes results/ and pipelines/.
SubfoldersAfter(out) ==
    IF out.val = "selected"
       /\ workspace_json[out.cfg.current].state \notin Parseable
    THEN [subfolders EXCEPT ![out.cfg.current] = TRUE]
    ELSE subfolders

\* The number of failed writes among the outcomes ws.
Failed(ws) == Cardinality({k \in 1..Len(ws) : ws[k] # "ok"})

LoadOutcomes == {"loaded", "handle_data_raised", "dims_raised"}
RefreshOutcomes == {"refreshed", "failed"}

\* A request handled by one of the managers ms, its write ending as one of ws.
SetWorkspace(ms, ws, paths) ==
    \E m \in ms, raw \in paths, pw \in ws, w \in ws :
        LET out == set_workspace(workspace_config[m], raw)
            wrote == IF out.save THEN <<pw, w>> ELSE <<>>
        IN /\ failures + Failed(wrote) <= MaxWriteFailures
           /\ Effect(m, out, w)
           /\ pointer' = IF out.save THEN save_current_workspace(raw.dir, pw)
                         ELSE pointer
           /\ subfolders' = SubfoldersAfter(out)
           /\ failures' = failures + Failed(wrote)
           /\ UNCHANGED <<results, dataset_folders, pipeline_files>>
\* The process of manager m ends and a new one starts.
Restart(ms, ws) ==
    \E m \in ms, w \in ws :
        LET out == load_current_workspace
        IN /\ Effect(m, out, w)
           /\ subfolders' = SubfoldersAfter(out)
           /\ failures' = IF out.save /\ w # "ok" THEN failures + 1 ELSE failures
           /\ UNCHANGED <<pointer, results, dataset_folders, pipeline_files>>
LinkDataset(ms, ws, paths) ==
    \E m \in ms, raw \in paths, w \in ws :
        Handle(m, link_dataset(workspace_config[m], raw), w)
UnlinkDataset(ms, ws) ==
    \E m \in ms, id \in DatasetIds, w \in ws :
        Handle(m, unlink_dataset(workspace_config[m], id), w)
RefreshDataset(ms, ws) ==
    \E m \in ms, id \in DatasetIds, o \in RefreshOutcomes, w \in ws :
        Handle(m, refresh_dataset(workspace_config[m], id, o), w)
LoadDatasetInfo(ms, ws) ==
    \E m \in ms, id \in DatasetIds, c \in Configs, f \in Files,
       o \in LoadOutcomes, w \in ws :
        Handle(m, load_dataset_info(workspace_config[m], id, c, f, o), w)
ParserOutcomes == {"ok", "raised"}
DetectDatasetFiles(ms) ==
    \E m \in ms, id \in DatasetIds, parser \in ParserOutcomes :
        Handle(m, detect_dataset_files(workspace_config[m], id, parser), "ok")
UpdateDatasetConfig(ms, ws) ==
    \E m \in ms, id \in DatasetIds, c \in Configs, w \in ws :
        Handle(m, update_dataset_config(workspace_config[m], id, c), w)
CreateGroup(ms, ws) ==
    \E m \in ms, n \in Names, w \in ws :
        /\ Len(workspace_config[m].groups) < MaxGroups
        /\ Handle(m, create_group(workspace_config[m], n), w)
RenameGroup(ms, ws) ==
    \E m \in ms, g \in GroupIds, n \in Names, w \in ws :
        Handle(m, rename_group(workspace_config[m], g, n), w)
DeleteGroup(ms, ws) ==
    \E m \in ms, g \in GroupIds, w \in ws :
        Handle(m, delete_group(workspace_config[m], g), w)
AddDatasetToGroup(ms, ws) ==
    \E m \in ms, g \in GroupIds, d \in MemberIds, w \in ws :
        Handle(m, add_dataset_to_group(workspace_config[m], g, d), w)
RemoveDatasetFromGroup(ms, ws) ==
    \E m \in ms, g \in GroupIds, d \in MemberIds, w \in ws :
        Handle(m, remove_dataset_from_group(workspace_config[m], g, d), w)
\* The reads leave everything as it is.
GetCurrentWorkspace(ms) ==
    \E m \in ms : /\ get_current_workspace(workspace_config[m]) = workspace_config[m]
                  /\ UNCHANGED vars
GetGroups(ms) ==
    \E m \in ms : /\ Len(get_groups(workspace_config[m])) >= 0
                  /\ UNCHANGED vars

\* A first start: nothing selected, no pointer file, empty folders.
Init ==
    /\ workspace_config = [m \in Managers |-> NoConfig]
    /\ workspace_json = [d \in WorkspaceDirs |-> MissingFile]
    /\ pointer = 0
    /\ subfolders = [d \in WorkspaceDirs |-> FALSE]
    /\ failures = 0
    /\ writer = 0
    /\ results = <<>>
    /\ dataset_folders = PlainFolders
    /\ pipeline_files = {}

\* Spec: one backend process, the dataset side of the catalog; a write of
\* workspace.json may fail.
Next ==
    \/ SetWorkspace({1}, Writes, OneWorkspace)
    \/ LinkDataset({1}, Writes, RawPaths)
    \/ UnlinkDataset({1}, Writes)
    \/ RefreshDataset({1}, Writes)
    \/ LoadDatasetInfo({1}, Writes)
    \/ UpdateDatasetConfig({1}, Writes)
    \/ GetCurrentWorkspace({1})

Spec == Init /\ [][Next]_vars

\* SpecGroups: one backend process, the groups of the catalog.
NextGroups ==
    \/ SetWorkspace({1}, Reliable, OneWorkspace)
    \/ CreateGroup({1}, Reliable)
    \/ RenameGroup({1}, Reliable)
    \/ DeleteGroup({1}, Reliable)
    \/ AddDatasetToGroup({1}, Reliable)
    \/ RemoveDatasetFromGroup({1}, Reliable)
    \/ GetGroups({1})

SpecGroups == Init /\ [][NextGroups]_vars

\* SpecAll: one backend process, every operation of the Workspace Manager;
\* every write of workspace.json succeeds; two data folders.
NextAll ==
    \/ SetWorkspace({1}, Reliable, OneWorkspace)
    \/ LinkDataset({1}, Reliable, FewPaths)
    \/ UnlinkDataset({1}, Reliable)
    \/ RefreshDataset({1}, Reliable)
    \/ LoadDatasetInfo({1}, Reliable)
    \/ UpdateDatasetConfig({1}, Reliable)
    \/ CreateGroup({1}, Reliable)
    \/ RenameGroup({1}, Reliable)
    \/ DeleteGroup({1}, Reliable)
    \/ AddDatasetToGroup({1}, Reliable)
    \/ RemoveDatasetFromGroup({1}, Reliable)
    \/ GetCurrentWorkspace({1})
    \/ GetGroups({1})

SpecAll == Init /\ [][NextAll]_vars

\* SpecShared: two process instances on the same workspace folder; every
\* write succeeds; two data folders.
NextShared ==
    \/ SetWorkspace(Managers, Reliable, OneWorkspace)
    \/ LinkDataset(Managers, Reliable, FewPaths)
    \/ UnlinkDataset(Managers, Reliable)
    \/ CreateGroup(Managers, Reliable)
    \/ GetCurrentWorkspace(Managers)
    \/ GetGroups(Managers)

SpecShared == Init /\ [][NextShared]_vars

\* SpecSelect: selecting workspace folders and restarting.  The folders
\* hold what earlier sessions left: no document, an unparseable one, one
\* this version wrote, one of an older version without groups, one of a
\* folder copied from another place, one without a path.  Manager 1 serves
\* the requests; manager 2 is the manager a new process constructs.
OldDataset ==
    [id |-> 1, path |-> 1, dims |-> "inspected", config |-> "none",
     files |-> "none", last_loaded |-> FALSE,
     inspected |-> inspect_dataset(PlainFolder)]
OldPipeline == [id |-> "pipeline_a"]
OldGroup == [id |-> 1, name |-> "nameA", dataset_ids |-> <<1>>]
FoundDocuments(dir) ==
    {MissingFile, CorruptFile}
    \cup {[state |-> "ok", path |-> recorded, datasets |-> <<OldDataset>>,
           pipelines |-> <<OldPipeline>>, groups |-> <<OldGroup>>] :
            recorded \in {dir, CopiedFrom, 0}}
    \cup {[state |-> "legacy", path |-> dir, datasets |-> <<OldDataset>>,
           pipelines |-> <<OldPipeline>>, groups |-> <<>>]}

InitSelect ==
    /\ workspace_config = [m \in Managers |-> NoConfig]
    /\ workspace_json \in
            {f \in [WorkspaceDirs -> UNION {FoundDocuments(d) : d \in WorkspaceDirs}] :
                \A d \in WorkspaceDirs : f[d] \in FoundDocuments(d)}
    /\ pointer = 0
    /\ subfolders = [d \in WorkspaceDirs |-> workspace_json[d].state = "ok"]
    /\ failures = 0
    /\ writer = 0
    /\ results = <<>>
    /\ dataset_folders = PlainFolders
    /\ pipeline_files = {}

NextSelect ==
    \/ SetWorkspace({1}, Reliable, WorkspacePaths)
    \/ Restart({2}, Reliable)
    \/ LinkDataset({1}, Reliable, OneDataset)
    \/ CreateGroup({1}, Reliable)
    \/ GetCurrentWorkspace({1})

SpecSelect == InitSelect /\ [][NextSelect]_vars

\* ------------------------------------------------ prediction query engine
\* (src/api/predictions.py)  A text is a sequence of characters, the empty
\* sequence standing for a key that is missing; a time is a number.
Lower(c) == IF c = "A" THEN "a" ELSE c
\* str.lower()
lower(text) == [i \in 1..Len(text) |-> Lower(text[i])]
\* str.strip()
RECURSIVE strip(_)
strip(text) ==
    IF text # <<>> /\ Head(text) = " " THEN strip(Tail(text))
    ELSE IF text # <<>> /\ text[Len(text)] = " "
         THEN strip(SubSeq(text, 1, Len(text) - 1))
    ELSE text
\* sub in text
Contains(sub, text) ==
    \E i \in 0..(Len(text) - Len(sub)) : SubSeq(text, i + 1, i + Len(sub)) = sub
\* The order of the characters (their code points).
Ord(c) == CASE c = " " -> 32 [] c = "A" -> 65 [] c = "a" -> 97 [] c = "b" -> 98
\* text1 <= text2 for strings
RECURSIVE StrLe(_, _)
StrLe(text1, text2) ==
    IF text1 = <<>> THEN TRUE
    ELSE IF text2 = <<>> THEN FALSE
    ELSE IF Ord(Head(text1)) < Ord(Head(text2)) THEN TRUE
    ELSE IF Ord(Head(text1)) > Ord(Head(text2)) THEN FALSE
    ELSE StrLe(Tail(text1), Tail(text2))

\* The value stored under a numeric key such as val_score: a number (in
\* hundredths), no key, null, or a text float() does not accept.
Number(n) == [kind |-> "number", value |-> n]
NoScore == [kind |-> "missing", value |-> 0]
NullScore == [kind |-> "null", value |-> 0]
TextScore == [kind |-> "text", value |-> 0]

\* A prediction record: one element of the array of a predictions.json.
Prediction(id, model_name, partition, val_score) ==
    [id |-> id, model_name |-> model_name, dataset_name |-> <<"a">>,
     config_name |-> <<>>, preprocessings |-> <<>>, partition |-> partition,
     val_score |-> val_score]

\* An element of the array that is not a mapping (a text, a number, null).
NotAMapping ==
    [id |-> <<"not a mapping">>, model_name |-> <<>>, dataset_name |-> <<>>,
     config_name |-> <<>>, preprocessings |-> <<>>, partition |-> <<>>,
     val_score |-> NoScore]
\* pred['_dataset_folder'] = dataset_name is possible.
IsMapping(pred) == pred # NotAMapping
\* The elements of an array that the loop over it appends before the
\* assignment to an element that is not a mapping raises.
Appended(data) ==
    IF \A k \in 1..Len(data) : IsMapping(data[k]) THEN Len(data)
    ELSE (CHOOSE k \in 1..Len(data) :
            ~IsMapping(data[k]) /\ \A j \in 1..(k - 1) : IsMapping(data[j])) - 1

\* A file results/<dataset>/predictions.json: invalid JSON ("invalid"), a
\* JSON array ("array") or another JSON value ("other"); mtime is its
\* modification time.
PredictionsFile(kind, data, mtime) == [kind |-> kind, data |-> data, mtime |-> mtime]
\* The time a file written now gets.
LatestTime == 2

SeqsUpTo(S, n) == UNION {[1..k -> S] : k \in 0..n}
\* The files whose arrays hold records of universe, with the kinds and the
\* modification times given.
FilesOver(universe, kinds, times) ==
    {PredictionsFile("array", data, t) :
        data \in SeqsUpTo(universe, MaxRecords), t \in times}
    \cup {PredictionsFile(k, <<>>, t) : k \in kinds \ {"array"}, t \in times}

\* get_results_path: the results folder of _current_workspace_path (0: None).
get_results_path(cfg) == cfg.current
\* results_dir.exists()
ResultsDirExists(cfg) == subfolders[cfg.current]
\* The files the glob of a handler enumerates.
Glob(cfg, files) ==
    IF get_results_path(cfg) = 0 THEN <<>>
    ELSE IF ~ResultsDirExists(cfg) THEN <<>>
    ELSE files

\* The loop of delete_prediction from file i on: the first file whose array
\* loses an element is rewritten without the elements carrying the id, and
\* the loop ends; a file that cannot be read as an array is passed over.
RECURSIVE delete_from(_, _, _)
delete_from(files, i, prediction_id) ==
    IF i > Len(files) THEN [results |-> files, found |-> FALSE]
    ELSE LET f == files[i]
             kept == SelectSeq(f.data, LAMBDA pred : pred.id # prediction_id)
         IN IF f.kind = "array" /\ Len(kept) < Len(f.data)
            THEN [results |-> [files EXCEPT ![i] =
                                 PredictionsFile("array", kept, LatestTime)],
                  found |-> TRUE]
            ELSE delete_from(files, i + 1, prediction_id)

\* delete_prediction: the files afterwards and the answer.
delete_prediction(cfg, files, prediction_id) ==
    IF get_results_path(cfg) = 0
    THEN [results |-> files, val |-> "NotFound"]
    ELSE LET done == delete_from(Glob(cfg, files), 1, prediction_id)
         IN IF done.found THEN [results |-> done.results, val |-> "deleted"]
            ELSE [results |-> files, val |-> "NotFound"]

\* DELETE /predictions/{prediction_id}: what the caller gets.
delete_prediction_route(val) ==
    CASE val = "deleted" -> Response(200, "deleted successfully")
      [] val = "NotFound" -> Response(404, "Prediction not found")

\* get_predictions_counts: the lengths of the arrays, summed.
RECURSIVE count_from(_, _)
count_from(files, i) ==
    IF i > Len(files) THEN 0
    ELSE (IF files[i].kind = "array" THEN Len(files[i].data) ELSE 0)
         + count_from(files, i + 1)
get_predictions_counts(cfg, files) == [total |-> count_from(Glob(cfg, files), 1)]

\* get_predictions_datasets: one entry per file that holds valid JSON, with
\* the length of its array, 0 for another JSON value.
RECURSIVE datasets_from(_, _)
datasets_from(files, i) ==
    IF i > Len(files) THEN <<>>
    ELSE (IF files[i].kind = "invalid" THEN <<>>
          ELSE <<[name |-> i,
                  count |-> IF files[i].kind = "array"
                            THEN Len(files[i].data) ELSE 0]>>)
         \o datasets_from(files, i + 1)
get_predictions_datasets(cfg, files) == [datasets |-> datasets_from(Glob(cfg, files), 1)]

\* get_predictions_meta: the distinct values of the keys present.
get_predictions_meta(cfg, files) ==
    LET globbed == Glob(cfg, files)
        arrays == {i \in 1..Len(globbed) : globbed[i].kind = "array"}
        preds == UNION {{globbed[i].data[k] : k \in 1..Len(globbed[i].data)} :
                            i \in arrays}
    IN [models |-> {pred.model_name : pred \in {x \in preds : x.model_name # <<>>}},
        configs |-> {pred.config_name : pred \in {x \in preds : x.config_name # <<>>}},
        partitions |-> {pred.partition : pred \in {x \in preds : x.partition # <<>>}},
        datasets |-> {pred.dataset_name : pred \in {x \in preds : x.dataset_name # <<>>}}]

\* A date filter of a request: none, an ISO date without offset ("naive"),
\* an ISO date with a UTC offset ("aware"), a text fromisoformat rejects.
NoDate == [kind |-> "none", time |-> 0]
Naive(t) == [kind |-> "naive", time |-> t]
Aware(t) == [kind |-> "aware", time |-> t]
BadDate == [kind |-> "invalid", time |-> 0]

\* The parameters of search_predictions; an empty text is a parameter left
\* out (or given empty: the handler tests its truth value).
Query(q, dataset, model_name, partition, date_from, date_to, sort_by, sort_dir, page, page_size) ==
    [q |-> q, dataset |-> dataset, model_name |-> model_name,
     partition |-> partition, date_from |-> date_from, date_to |-> date_to,
     sort_by |-> sort_by, sort_dir |-> sort_dir, page |-> page,
     page_size |-> page_size]

\* An aggregation loop that a file with invalid JSON ends.
RECURSIVE aggregate_unguarded(_, _)
aggregate_unguarded(files, i) ==
    IF i > Len(files) THEN <<>>
    ELSE IF files[i].kind = "invalid" THEN <<>>
    ELSE (IF files[i].kind = "array"
          THEN [k \in 1..Appended(files[i].data) |->
                    [pred |-> files[i].data[k], file_date |-> files[i].mtime,
                     file_path |-> i]]
          ELSE <<>>)
         \o aggregate_unguarded(files, i + 1)

\* The aggregation loop of search_predictions from file i on: the elements
\* of every file read as an array, each with the modification time and the
\* path of its file; a file that cannot be read is passed over, and an
\* element that is not a mapping ends the loop over its file.
RECURSIVE aggregate(_, _)
aggregate(files, i) ==
    IF i > Len(files) THEN <<>>
    ELSE (IF files[i].kind = "array"
          THEN [k \in 1..Appended(files[i].data) |->
                    [pred |-> files[i].data[k], file_date |-> files[i].mtime,
                     file_path |-> i]]
          ELSE <<>>)
         \o aggregate(files, i + 1)

\* The text search: q, stripped and lowered, in one of the five fields.
text_search(filtered, q) ==
    IF q # <<>> /\ strip(q) # <<>>
    THEN LET q_lower == lower(strip(q))
         IN SelectSeq(filtered, LAMBDA x :
                \/ Contains(q_lower, lower(x.pred.model_name))
                \/ Contains(q_lower, lower(x.pred.dataset_name))
                \/ Contains(q_lower, lower(x.pred.config_name))
                \/ Contains(q_lower, lower(x.pred.id))
                \/ Contains(q_lower, lower(x.pred.preprocessings)))
    ELSE filtered

\* The dataset, model name and partition filters.
exact_filters(filtered, query) ==
    LET by_dataset ==
            IF query.dataset # <<>>
            THEN SelectSeq(filtered, LAMBDA x : x.pred.dataset_name = query.dataset)
            ELSE filtered
        by_model ==
            IF query.model_name # <<>>
            THEN SelectSeq(by_dataset, LAMBDA x : x.pred.model_name = query.model_name)
            ELSE by_dataset
    IN IF query.partition # <<>>
       THEN SelectSeq(by_model, LAMBDA x : x.pred.partition = query.partition)
       ELSE by_model

\* A date filter: fromisoformat raising, or the comparison of the file date
\* (without offset) with a date that has one raising, is passed over by the
\* bare except and the list stays as it is.
date_from_filter(filtered, date_from) ==
    IF date_from.kind = "naive"
    THEN SelectSeq(filtered, LAMBDA x : x.file_date >= date_from.time)
    ELSE filtered
date_to_filter(filtered, date_to) ==
    IF date_to.kind = "naive"
    THEN SelectSeq(filtered, LAMBDA x : x.file_date <= date_to.time)
    ELSE filtered

\* float(x.get(sort_by, 0) or 0): the key of the numeric sort.
float_key(score) == IF score.kind = "number" THEN score.value ELSE 0
\* float() raises for a text that is no number.
float_raises(score) == score.kind = "text"

\* key(x) <= key(y) for the sort named sort_by.
KeyLe(sort_by, x, y) ==
    CASE sort_by = "val_score" ->
            float_key(x.pred.val_score) <= float_key(y.pred.val_score)
      [] sort_by \in {"_file_date", "_date", "none"} -> x.file_date <= y.file_date
      [] OTHER -> StrLe(lower(x.pred.model_name), lower(y.pred.model_name))

\* list.sort(key=...): a stable sort; x goes behind the elements whose key
\* is not greater than its own.
RECURSIVE stable_insert(_, _, _)
stable_insert(sort_by, sorted, x) ==
    IF sorted = <<>> THEN <<x>>
    ELSE IF KeyLe(sort_by, Head(sorted), x)
         THEN <<Head(sorted)>> \o stable_insert(sort_by, Tail(sorted), x)
    ELSE <<x>> \o sorted
RECURSIVE stable_sort(_, _)
stable_sort(sort_by, seq) ==
    IF seq = <<>> THEN <<>>
    ELSE stable_insert(sort_by, stable_sort(sort_by, SubSeq(seq, 1, Len(seq) - 1)),
                       seq[Len(seq)])
Reversed(seq) == [i \in 1..Len(seq) |-> seq[Len(seq) + 1 - i]]
\* A descending sort that turns the ascending one around.
list_sort_unstable(sort_by, seq, reverse) ==
    IF reverse THEN Reversed(stable_sort(sort_by, seq))
    ELSE stable_sort(sort_by, seq)
\* list.sort(key=..., reverse=...): with reverse=True the list is sorted as
\* if every comparison were reversed, and the elements of equal key keep
\* their order.
list_sort(sort_by, seq, reverse) ==
    IF reverse THEN Reversed(stable_sort(sort_by, Reversed(seq)))
    ELSE stable_sort(sort_by, seq)

\* The sorting step: a key that raises ends the sort in the except block
\* and the list stays in its order; without sort_by the file date, descending.
sorting(filtered, sort_by, sort_dir) ==
    IF sort_by = "none" THEN list_sort("none", filtered, TRUE)
    ELSE IF sort_by = "val_score"
            /\ \E k \in 1..Len(filtered) : float_raises(filtered[k].pred.val_score)
         THEN filtered
    ELSE list_sort(sort_by, filtered, sort_dir = "desc")

\* filtered[start_idx:end_idx]
Slice(seq, start_idx, end_idx) ==
    IF start_idx >= Len(seq) THEN <<>>
    ELSE SubSeq(seq, start_idx + 1, IF end_idx < Len(seq) THEN end_idx ELSE Len(seq))

\* The filtered, sorted list of search_predictions.
search_filtered(cfg, files, query) ==
    sorting(date_to_filter(date_from_filter(
                exact_filters(text_search(aggregate(Glob(cfg, files), 1), query.q),
                              query),
                query.date_from), query.date_to),
            query.sort_by, query.sort_dir)

\* A search_predictions whose pages are numbered from 0.
search_predictions_zero_indexed(cfg, files, query) ==
    LET filtered == search_filtered(cfg, files, query)
        start_idx == query.page * query.page_size
        end_idx == start_idx + query.page_size
    IN [predictions |-> Slice(filtered, start_idx, end_idx),
        total |-> Len(filtered)]

\* search_predictions: the page and the total.
search_predictions(cfg, files, query) ==
    LET filtered == search_filtered(cfg, files, query)
        start_idx == (query.page - 1) * query.page_size
        end_idx == start_idx + query.page_size
    IN [predictions |-> Slice(filtered, start_idx, end_idx),
        total |-> Len(filtered)]

\* ---------------------------------------------------- prediction requests
PredictionIds == {<<"a">>, <<"b">>}
\* The request without parameters (page 1 of 100 records).
DefaultQuery ==
    Query(<<>>, <<>>, <<>>, <<>>, NoDate, NoDate, "none", "desc", 1, 100)

DeletePrediction ==
    \E prediction_id \in PredictionIds :
        /\ results' = delete_prediction(workspace_config[1], results,
                                        prediction_id).results
        /\ UNCHANGED <<workspace_config, workspace_json, pointer, subfolders,
                       failures, writer, dataset_folders, pipeline_files>>
SearchPredictions ==
    /\ search_predictions(workspace_config[1], results, DefaultQuery).total >= 0
    /\ UNCHANGED vars
GetPredictionsCounts ==
    /\ get_predictions_counts(workspace_config[1], results).total >= 0
    /\ UNCHANGED vars
GetPredictionsMeta ==
    /\ get_predictions_meta(workspace_config[1], results).models \subseteq
            {x.model_name : x \in UNION {{results[i].data[k] :
                k \in 1..Len(results[i].data)} : i \in 1..Len(results)}}
    /\ UNCHANGED vars

GetPredictionsDatasets ==
    /\ Len(get_predictions_datasets(workspace_config[1], results).datasets) >= 0
    /\ UNCHANGED vars

\* A backend whose manager has selected workspace folder 1 and finds files
\* under its results folder.
InitPredictions(files) ==
    /\ workspace_config = [m \in Managers |->
                              IF m = 1 THEN DefaultConfig(1) ELSE NoConfig]
    /\ workspace_json = [d \in WorkspaceDirs |->
                            IF d = 1 THEN to_dict(DefaultConfig(1)) ELSE MissingFile]
    /\ pointer = 1
    /\ subfolders = [d \in WorkspaceDirs |-> d = 1]
    /\ failures = 0
    /\ writer = 1
    /\ results \in SeqsUpTo(files, MaxFiles)
    /\ dataset_folders = PlainFolders
    /\ pipeline_files = {}

NextPredictions ==
    \/ DeletePrediction
    \/ SearchPredictions
    \/ GetPredictionsCounts
    \/ GetPredictionsMeta

\* SpecDelete: files whose records share identifiers.
DeleteUniverse ==
    {Prediction(<<"a">>, <<"a">>, <<"a">>, NoScore),
     Prediction(<<"a">>, <<"b">>, <<"a">>, NoScore),
     Prediction(<<"b">>, <<"a">>, <<"a">>, NoScore)}
InitDelete ==
    InitPredictions(FilesOver(DeleteUniverse, {"array", "invalid", "other"}, {1}))
SpecDelete == InitDelete /\ [][NextPredictions]_vars

\* SpecSearch: files with records that tie on a sort key, files with
\* invalid JSON, two modification times.
SearchUniverse ==
    {Prediction(<<"a">>, <<"A">>, <<"a">>, Number(62)),
     Prediction(<<"b">>, <<"a">>, <<"b">>, Number(95))}
InitSearch ==
    InitPredictions(FilesOver(SearchUniverse, {"array", "invalid"}, {1, 2}))
SpecSearch == InitSearch /\ [][NextPredictions]_vars

\* SpecMixed: files that hold an array of mappings, an array with an
\* element that is not a mapping, another JSON value, or invalid JSON.
MixedUniverse ==
    {Prediction(<<"a">>, <<"a">>, <<"a">>, NoScore),
     Prediction(<<"b">>, <<"a">>, <<"a">>, NoScore),
     NotAMapping}
InitMixed ==
    InitPredictions(FilesOver(MixedUniverse, {"array", "invalid", "other"}, {1}))
NextMixed ==
    \/ SearchPredictions
    \/ GetPredictionsCounts
    \/ GetPredictionsDatasets
SpecMixed == InitMixed /\ [][NextMixed]_vars

\* SpecPages: files that all hold a JSON array.
InitPages == InitPredictions(FilesOver(SearchUniverse, {"array"}, {1, 2}))
SpecPages == InitPages /\ [][NextPredictions]_vars

\* SpecSort: records whose val_score is a number above 0, a number below 0,
\* missing, or a text that is no number.
SortUniverse ==
    {Prediction(<<"a">>, <<"a">>, <<"a">>, Number(95)),
     Prediction(<<"a">>, <<"a">>, <<"a">>, Number(0 - 5)),
     Prediction(<<"a">>, <<"a">>, <<"a">>, NoScore),
     Prediction(<<"a">>, <<"a">>, <<"a">>, TextScore)}
InitSort == InitPredictions(FilesOver(SortUniverse, {"array"}, {1}))
SpecSort == InitSort /\ [][NextPredictions]_vars

\* SpecFilter: records that differ in the fields the filters read, in files
\* of two modification times.
FilterUniverse ==
    {[id |-> <<"b">>, model_name |-> <<"A", "b">>, dataset_name |-> <<"b">>,
      config_name |-> <<>>, preprocessings |-> <<>>, partition |-> <<"a">>,
      val_score |-> NoScore],
     [id |-> <<"b">>, model_name |-> <<"b">>, dataset_name |-> <<"a">>,
      config_name |-> <<>>, preprocessings |-> <<>>, partition |-> <<"b">>,
      val_score |-> NoScore]}
InitFilter == InitPredictions(FilesOver(FilterUniverse, {"array"}, {1, 2}))
SpecFilter == InitFilter /\ [][NextPredictions]_vars

\* SpecInspect: linking data folder 1, in which the resolver finds up to
\* MaxSources train-side feature files (tables of 100 rows, or unreadable),
\* no, one or two test-side feature files, and any combination mode.
FeatureFiles == {Table(100, 50), Table(100, 30), Table(100, 20), Unreadable}
TrainSide ==
    {NoRole} \cup {OnePath(file) : file \in FeatureFiles}
    \cup {PathList(files) : files \in SeqsUpTo(FeatureFiles, MaxSources)}
TestSide ==
    {NoRole, OnePath(Table(40, 50)), PathList(<<Table(40, 50), Table(40, 30)>>)}
InspectFolders ==
    {ParsedConfig(train_x, test_x, OnePath(Array1d(100)), NoRole, NoRole, mode) :
        train_x \in TrainSide, test_x \in TestSide,
        mode \in {"absent", "stack", "concat"}}
InspectPaths ==
    {raw \in RawPaths : raw.dir \in {1, EmptyDir, MissingDir} /\ raw.spelling = "abs"}
InitInspect ==
    /\ workspace_config = [m \in Managers |-> NoConfig]
    /\ workspace_json = [d \in WorkspaceDirs |-> MissingFile]
    /\ pointer = 0
    /\ subfolders = [d \in WorkspaceDirs |-> FALSE]
    /\ failures = 0
    /\ writer = 0
    /\ results = <<>>
    /\ dataset_folders \in {[d \in DataDirs |-> IF d = 1 THEN folder ELSE PlainFolder] :
                                folder \in InspectFolders}
    /\ pipeline_files = {}
NextInspect ==
    \/ SetWorkspace({1}, Reliable, OneWorkspace)
    \/ LinkDataset({1}, Reliable, InspectPaths)
    \/ UnlinkDataset({1}, Reliable)
    \/ GetCurrentWorkspace({1})
SpecInspect == InitInspect /\ [][NextInspect]_vars

\* SpecDetect: detecting the files of data folder 1, in which the resolver
\* finds one path or lists of paths for the features, the targets and the
\* groups.
DetectFolders ==
    {ParsedConfig(train_x, test_x, train_y, NoRole, train_group, "absent") :
        train_x \in {NoRole, OnePath(Table(100, 50)), PathList(<<Table(100, 50)>>)}
                   \cup {PathList([i \in 1..n |-> Table(100, 10 * i)]) :
                            n \in 2..MaxSources},
        test_x \in TestSide,
        train_y \in {OnePath(Array1d(100)),
                     PathList(<<Array1d(100), Table(100, 2)>>)},
        train_group \in {NoRole, PathList(<<Array1d(100), Array1d(100)>>)}}
InitDetect ==
    /\ workspace_config = [m \in Managers |-> NoConfig]
    /\ workspace_json = [d \in WorkspaceDirs |-> MissingFile]
    /\ pointer = 0
    /\ subfolders = [d \in WorkspaceDirs |-> FALSE]
    /\ failures = 0
    /\ writer = 0
    /\ results = <<>>
    /\ dataset_folders \in {[d \in DataDirs |-> IF d = 1 THEN folder ELSE PlainFolder] :
                                folder \in DetectFolders}
    /\ pipeline_files = {}
NextDetect ==
    \/ SetWorkspace({1}, Reliable, OneWorkspace)
    \/ LinkDataset({1}, Reliable, InspectPaths)
    \/ DetectDatasetFiles({1})
    \/ UnlinkDataset({1}, Reliable)
    \/ GetCurrentWorkspace({1})
SpecDetect == InitDetect /\ [][NextDetect]_vars

\* SpecOverlap: one backend process that links, unlinks and groups the
\* datasets of the data folders; every write succeeds.
NextOverlap ==
    \/ SetWorkspace({1}, Reliable, OneWorkspace)
    \/ LinkDataset({1}, Reliable, RawPaths)
    \/ UnlinkDataset({1}, Reliable)
    \/ CreateGroup({1}, Reliable)
    \/ AddDatasetToGroup({1}, Reliable)
    \/ GetCurrentWorkspace({1})
SpecOverlap == Init /\ [][NextOverlap]_vars

\* ---------------------------------------------------------------- pipelines
\* (src/api/pipelines.py)  The characters of a name: an ASCII letter, an
\* ASCII digit, the hyphen, the underscore, the space, and a letter outside
\* ASCII.
NameChars == {"a", "7", "-", "_", " ", "é"}
\* str.isalnum(): true of the letters and digits of every script.
isalnum(c) == c \in {"a", "7", "é"}
\* "".join(c if c.isalnum() or c in ('-', '_') else '_' for c in name)
sanitize(name) ==
    [i \in 1..Len(name) |->
        IF isalnum(name[i]) \/ name[i] \in {"-", "_"} THEN name[i] ELSE "_"]
\* get_pipelines_path: the pipelines folder of _current_workspace_path.
get_pipelines_path(cfg) == cfg.current
\* save_pipeline: the files of pipelines/ afterwards and the answer; the
\* file of the name is created or overwritten.
save_pipeline(cfg, files, name) ==
    IF get_pipelines_path(cfg) = 0
    THEN [files |-> files, val |-> "NoWorkspace", id |-> <<>>]
    ELSE [files |-> files \cup {sanitize(name)}, val |-> "saved",
          id |-> sanitize(name)]

PipelineNames == SeqsUpTo(NameChars, MaxName)
\* POST /pipelines; pipelines_dir.mkdir makes the folder when it is missing.
SavePipeline ==
    \E name \in PipelineNames :
        LET out == save_pipeline(workspace_config[1], pipeline_files, name)
        IN /\ Cardinality(out.files) <= MaxPipelines
           /\ pipeline_files' = out.files
           /\ subfolders' = IF out.val = "saved"
                             THEN [subfolders EXCEPT ![workspace_config[1].current] = TRUE]
                             ELSE subfolders
           /\ UNCHANGED <<workspace_config, workspace_json, pointer, failures,
                          writer, results, dataset_folders>>

\* SpecPipelines: saving pipelines in the selected workspace.
NextPipelines ==
    \/ SavePipeline
    \/ GetCurrentWorkspace({1})
SpecPipelines == InitPredictions({}) /\ [][NextPipelines]_vars

\* ================================================================ claims
\* The lists of a catalog or of a document.
Lists(x) == <<x.datasets, x.pipelines, x.groups>>
HasId(seq, id) == \E i \in 1..Len(seq) : seq[i].id = id
HasPath(seq, dir) == \E i \in 1..Len(seq) : seq[i].path = dir
UniqueIds(seq) ==
    \A i, j \in 1..Len(seq) : i # j => seq[i].id # seq[j].id
Count(x, seq) == Cardinality({k \in 1..Len(seq) : seq[k] = x})

\* C1: after any sequence of link and unlink operations no two Dataset
\* records of the catalog carry the same identifier.
\* (link a, link b, unlink dataset_1, link a: two records named dataset_2.)
C1_UniqueDatasetIds == UniqueIds(workspace_config[1].datasets)

\* C2: no two Dataset records share a resolved path, and linking a path
\* (in any spelling) whose resolved path is already linked fails with
\* AlreadyLinked, writes nothing and leaves exactly one Dataset for the path.
\* The dataset folder is the same at both calls.
C2_OnePerPath ==
    LET cfg == workspace_config[1]
    IN /\ \A i, j \in 1..Len(cfg.datasets) :
            i # j => cfg.datasets[i].path # cfg.datasets[j].path
       /\ \A raw \in RawPaths :
            (cfg.selected /\ HasPath(cfg.datasets, Resolve(raw))) =>
                LET out == link_dataset(cfg, raw)
                IN /\ out.val = "AlreadyLinked"
                   /\ ~out.save
                   /\ Cardinality({i \in 1..Len(out.cfg.datasets) :
                          out.cfg.datasets[i].path = Resolve(raw)}) = 1

\* C2 witness: both data folders of a two-folder catalog are linked, one of
\* them after an unlink, and a relative spelling of a linked folder is refused.
C2_Witness ==
    LET cfg == workspace_config[1]
    IN /\ cfg.selected
       /\ Len(cfg.datasets) >= 2
       /\ \E raw \in RawPaths :
            /\ raw.spelling = "rel"
            /\ link_dataset(cfg, raw).val = "AlreadyLinked"

\* C3: for the id of a linked Dataset, unlinkDataset(id) returns true and
\* the dataset count drops by exactly 1; a second unlinkDataset(id) right
\* after it returns false and leaves the count as it is.
C3_UnlinkRemovesOne ==
    LET cfg == workspace_config[1]
    IN \A id \in DatasetIds :
        (cfg.selected /\ HasId(cfg.datasets, id)) =>
            LET first == unlink_dataset(cfg, id)
                second == unlink_dataset(first.cfg, id)
            IN /\ first.val = "true"
               /\ Len(first.cfg.datasets) = Len(cfg.datasets) - 1
               /\ second.val = "false"
               /\ Len(second.cfg.datasets) = Len(first.cfg.datasets)

\* C4: when loadDatasetInfo(id, config, files) is called for an existing
\* dataset and the train-side load succeeds, the stored Dataset holds the
\* supplied config and files, the computed dimensions and a last_loaded
\* timestamp, in memory and (the write succeeding) in workspace.json.
C4_LoadStoresResult ==
    LET cfg == workspace_config[1]
    IN \A id \in DatasetIds, c \in Configs :
        (cfg.selected /\ HasId(cfg.datasets, id)) =>
            LET out == load_dataset_info(cfg, id, c, "train_x", "loaded")
                d == out.cfg.datasets[FirstIndex(cfg.datasets, id)]
            IN /\ out.val = "loaded"
               /\ d.config = c
               /\ d.files = "train_x"
               /\ d.dims = "loaded"
               /\ d.last_loaded
               /\ DiskAfter(out, "ok")[cfg.current] = to_dict(out.cfg)

\* C5: when the train-side load fails during loadDatasetInfo, in
\* handle_data or while the dimensions are computed, the stored Dataset is
\* the one before the call, in memory and on disk, and the caller does not
\* receive a success result.
C5_LoadFailureAborts ==
    LET cfg == workspace_config[1]
    IN \A id \in DatasetIds, c \in Configs,
          o \in {"handle_data_raised", "dims_raised"}, w \in Writes :
        (cfg.selected /\ HasId(cfg.datasets, id)) =>
            LET out == load_dataset_info(cfg, id, c, "train_x", o)
            IN /\ out.cfg.datasets = cfg.datasets
               /\ DiskAfter(out, w)[cfg.current].datasets
                      = workspace_json[cfg.current].datasets
               /\ out.val \notin Success

\* What the mutating handlers can end as from the catalog cfg.
MutatingOuts(cfg) ==
    {link_dataset(cfg, raw) : raw \in RawPaths}
    \cup {unlink_dataset(cfg, id) : id \in DatasetIds}
    \cup {refresh_dataset(cfg, id, o) : id \in DatasetIds, o \in RefreshOutcomes}
    \cup {load_dataset_info(cfg, id, c, f, o) :
            id \in DatasetIds, c \in Configs, f \in Files, o \in LoadOutcomes}
    \cup {update_dataset_config(cfg, id, c) : id \in DatasetIds, c \in Configs}
    \cup {create_group(cfg, n) : n \in Names}
    \cup {rename_group(cfg, g, n) : g \in GroupIds, n \in Names}
    \cup {delete_group(cfg, g) : g \in GroupIds}
    \cup {add_dataset_to_group(cfg, g, d) : g \in GroupIds, d \in MemberIds}
    \cup {remove_dataset_from_group(cfg, g, d) : g \in GroupIds, d \in MemberIds}

\* C6: a mutating operation whose write of workspace.json fails reports a
\* failure to its caller; it never returns success while the document on
\* disk differs from the catalog in memory.
C6_SaveFailureReported ==
    LET cfg == workspace_config[1]
    IN \A out \in MutatingOuts(cfg), w \in Writes :
        /\ (out.save /\ w # "ok") => out.val \notin Success
        /\ (out.save /\ out.val \in Success) =>
                Lists(DiskAfter(out, w)[cfg.current]) = Lists(out.cfg)

\* C7: file writes succeeding, after every operation of the Workspace
\* Manager the datasets, pipelines and groups of workspace.json are those of
\* the catalog in memory.
C7_DiskIsMemory ==
    LET cfg == workspace_config[1]
    IN cfg.selected =>
        /\ workspace_json[cfg.current].state = "ok"
        /\ Lists(workspace_json[cfg.current]) = Lists(cfg)

\* C7 witness: a catalog with a dataset whose record was changed after the
\* link and a group with a member, all of it on disk.
C7_Witness ==
    LET cfg == workspace_config[1]
    IN /\ cfg.selected
       /\ \E i \in 1..Len(cfg.datasets) :
            cfg.datasets[i].config = "cfgA" /\ cfg.datasets[i].dims = "refreshed"
       /\ \E k \in 1..Len(cfg.groups) :
            cfg.groups[k].name = "nameB" /\ Len(cfg.groups[k].dataset_ids) = 2
       /\ Lists(workspace_json[cfg.current]) = Lists(cfg)

\* C8 (as claimed): every read of the current workspace returns the content
\* of workspace.json as it is on disk at that moment, also after another
\* process instance has written the file.
C8_ReadsFromDisk ==
    \A m \in Managers :
        workspace_config[m].selected =>
            /\ Lists(get_current_workspace(workspace_config[m]))
                   = Lists(workspace_json[workspace_config[m].current])
            /\ get_groups(workspace_config[m])
                   = workspace_json[workspace_config[m].current].groups

\* C8 (amended): the catalog is cached in memory; a read returns the
\* catalog the instance holds, which is the content of workspace.json
\* whenever the last write of the file was a successful write of this
\* instance: a write puts the instance's whole document on disk, whatever
\* another instance had written there.
C8_ReadsFromMemory ==
    \A m \in Managers :
        writer = m =>
            /\ workspace_config[m].selected
            /\ workspace_json[workspace_config[m].current].state = "ok"
            /\ Lists(get_current_workspace(workspace_config[m]))
                   = Lists(workspace_json[workspace_config[m].current])
            /\ get_groups(workspace_config[m])
                   = workspace_json[workspace_config[m].current].groups

\* C8 witness: instance 1 wrote the file last, replacing the dataset and the
\* group that instance 2 had written and still holds in memory.
C8_Witness ==
    /\ writer = 1
    /\ workspace_config[2].selected
    /\ Len(workspace_config[2].datasets) >= 1
    /\ Len(workspace_config[2].groups) >= 1
    /\ Len(workspace_config[1].datasets) >= 1
    /\ workspace_config[1].groups = <<>>
    /\ workspace_config[1].datasets # workspace_config[2].datasets

\* C9: after any sequence of createGroup and deleteGroup operations no two
\* Group records carry the same identifier.
C9_UniqueGroupIds == UniqueIds(workspace_config[1].groups)

\* C10: for an existing group g, addDatasetToGroup(g, d) called once or
\* twice returns success and leaves exactly one d in g.dataset_ids;
\* removeDatasetFromGroup(g, d) for a d that is no member returns success
\* and leaves g.dataset_ids as it is; no group holds a dataset id twice.
C10_Membership ==
    LET cfg == workspace_config[1]
    IN \A k \in 1..Len(cfg.groups), d \in MemberIds :
        LET g == cfg.groups[k]
            once == add_dataset_to_group(cfg, g.id, d)
            twice == add_dataset_to_group(once.cfg, g.id, d)
            removed == remove_dataset_from_group(cfg, g.id, d)
        IN /\ once.val = "true" /\ twice.val = "true"
           /\ Count(d, once.cfg.groups[k].dataset_ids) = 1
           /\ Count(d, twice.cfg.groups[k].dataset_ids) = 1
           /\ Count(d, g.dataset_ids) <= 1
           /\ ~Member(d, g.dataset_ids) =>
                /\ removed.val = "true"
                /\ removed.cfg.groups[k].dataset_ids = g.dataset_ids

\* The part of C10 that does not rest on the group identifiers: in the group
\* an identifier resolves to (the first record carrying it) a dataset id
\* occurs once after any number of adds, and no group holds an id twice.
C10_ResolvedGroup ==
    LET cfg == workspace_config[1]
    IN \A gid \in GroupIds, d \in MemberIds :
        LET k == FirstIndex(cfg.groups, gid)
            once == add_dataset_to_group(cfg, gid, d)
            twice == add_dataset_to_group(once.cfg, gid, d)
        IN k # 0 =>
            /\ once.val = "true" /\ twice.val = "true"
            /\ Count(d, once.cfg.groups[k].dataset_ids) = 1
            /\ twice.cfg = once.cfg
            /\ \A j \in 1..Len(cfg.groups) :
                    Count(d, cfg.groups[j].dataset_ids) <= 1

\* C11 (as claimed): for every path that exists and is a directory,
\* selectWorkspace(path) followed by getCurrentWorkspace returns a Workspace
\* whose path is the resolved input path, whatever workspace.json the
\* folder holds.
\* (The folder holds a document that records another path, or none: the
\* path of the document is returned.)
C11_PathIsResolvedInput ==
    \A raw \in WorkspacePaths :
        (ExistsWorkspace(raw.dir) /\ IsDir(raw.dir)) =>
            LET out == set_workspace(workspace_config[1], raw)
            IN /\ out.val = "selected"
               /\ get_current_workspace(out.cfg).path = raw.dir

C13_LoadNeverFails ==
    \A dir \in WorkspaceDirs :
        LET doc == workspace_json[dir]
            out == load_workspace_config(dir)
        IN /\ out.val = "selected"
           /\ out.cfg.selected
           /\ doc.state \in {"missing", "corrupt"} =>
                /\ Lists(out.cfg) = <<(<<>>), (<<>>), (<<>>)>>
                /\ out.cfg = DefaultConfig(dir)
                /\ SubfoldersAfter(out)[dir]
           /\ doc.state = "legacy" =>
                /\ out.cfg.groups = <<>>
                /\ out.cfg.datasets = doc.datasets
                /\ out.cfg.pipelines = doc.pipelines
                /\ out.cfg.path = doc.path
           /\ doc.state = "ok" => Lists(out.cfg) = Lists(doc)

\* C13 witness: the manager holds the catalog of an older document (its
\* datasets and pipelines, no groups) that it has written back, and the
\* other folder still holds an unparseable document and no subfolders.
C13_Witness ==
    LET cfg == workspace_config[1]
    IN /\ cfg.selected
       /\ cfg.datasets = <<OldDataset>>
       /\ cfg.pipelines = <<OldPipeline>>
       /\ cfg.groups = <<>>
       /\ workspace_json[cfg.current] = to_dict(cfg)
       /\ \E dir \in WorkspaceDirs :
            workspace_json[dir].state = "corrupt" /\ ~subfolders[dir]

RemoveFirst(data, id) ==
    LET hits == {k \in 1..Len(data) : data[k].id = id}
        first == CHOOSE k \in hits : \A j \in hits : k <= j
    IN [k \in 1..(Len(data) - 1) |-> IF k < first THEN data[k] ELSE data[k + 1]]
HoldsId(file, id) ==
    file.kind = "array" /\ \E k \in 1..Len(file.data) : file.data[k].id = id

\* C15 (as claimed): deleteById(id) removes exactly one record, the first
\* record with that id of the first file that holds one, and rewrites only
\* that file; every other record, also a further record with that id in the
\* same file or in a later one, stays in place and in order; not found is
\* reported exactly when no file holds a record with that id.
\* (A file with two records of the id loses both.)
C15_DeleteRemovesOne ==
    \A id \in PredictionIds :
        LET out == delete_prediction(workspace_config[1], results, id)
            holders == {i \in 1..Len(results) : HoldsId(results[i], id)}
        IN IF holders = {}
           THEN out.val = "NotFound" /\ out.results = results
           ELSE LET i == CHOOSE h \in holders : \A j \in holders : h <= j
                IN /\ out.val = "deleted"
                   /\ Len(out.results) = Len(results)
                   /\ out.results[i].data = RemoveFirst(results[i].data, id)
                   /\ \A j \in 1..Len(results) : j # i => out.results[j] = results[j]

\* The part of C15 the code keeps: the first file holding the id is the
\* only file rewritten, it loses its records of that id and no other, the
\* other files stay as they are, and not found is reported exactly when no
\* file holds the id.
C15_DeleteFromFirstFile ==
    \A id \in PredictionIds :
        LET out == delete_prediction(workspace_config[1], results, id)
            holders == {i \in 1..Len(results) : HoldsId(results[i], id)}
        IN IF holders = {}
           THEN out.val = "NotFound" /\ out.results = results
           ELSE LET i == CHOOSE h \in holders : \A j \in holders : h <= j
                IN /\ out.val = "deleted"
                   /\ out.results[i].data =
                        SelectSeq(results[i].data, LAMBDA pred : pred.id # id)
                   /\ \A j \in 1..Len(results) : j # i => out.results[j] = results[j]

\* The requests of the pagination and sorting checks.
SortFields == {"none", "val_score", "_file_date", "model_name"}
SortQueries ==
    {Query(<<>>, <<>>, <<>>, <<>>, NoDate, NoDate, sort_by, sort_dir, 1, 100) :
        sort_by \in SortFields \ {"none"}, sort_dir \in {"asc", "desc"}}
    \cup {DefaultQuery}
PageQueries ==
    {Query(<<>>, <<>>, <<>>, partition, NoDate, NoDate, sort[1], sort[2], 1, sort[3]) :
        partition \in {<<>>, <<"a">>},
        sort \in {<<"none", "desc", 3>>, <<"val_score", "asc", 2>>}}

\* C16: for a fixed set of files and a fixed query, total is the same on
\* every page and is the number of records after filtering; the pages
\* 1..ceil(total/page_size) are consecutive slices of the filtered, sorted
\* list, none empty, and their concatenation is that list; every later page
\* is empty; 250 records with page_size 100 give pages of 100, 100, 50, 0.
C16_PagesPartition ==
    /\ \A query \in PageQueries :
        \A filtered \in {search_filtered(workspace_config[1], results, query)} :
        LET cfg == workspace_config[1]
            total == Len(filtered)
            size == query.page_size
            last == (total + size - 1) \div size
        IN /\ total = Len(SelectSeq(aggregate(results, 1), LAMBDA x :
                            query.partition # <<>> => x.pred.partition = query.partition))
           /\ \A n \in 1..(last + 2) :
                \A page \in {search_predictions(cfg, results,
                                                [query EXCEPT !.page = n])} :
                    /\ page.total = total
                    /\ n <= last =>
                        /\ page.predictions # <<>>
                        /\ page.predictions =
                             SubSeq(filtered, (n - 1) * size + 1,
                                    IF n * size < total THEN n * size ELSE total)
                    /\ n > last => page.predictions = <<>>
    /\ LET records == [i \in 1..250 |-> i]
       IN /\ Len(Slice(records, 0, 100)) = 100
          /\ Len(Slice(records, 100, 200)) = 100
          /\ Len(Slice(records, 200, 300)) = 50
          /\ Len(Slice(records, 300, 400)) = 0
          /\ Slice(records, 0, 100) \o Slice(records, 100, 200)
                \o Slice(records, 200, 300) = records

\* C16 witness: four records in two files, and a request of page size 3
\* whose second page holds the one record left.
C16_Witness ==
    /\ Len(aggregate(results, 1)) = 4
    /\ \E query \in PageQueries :
        /\ query.page_size = 3
        /\ query.partition = <<>>
        /\ Len(search_predictions(workspace_config[1], results,
                                   [query EXCEPT !.page = 1]).predictions) = 3
        /\ Len(search_predictions(workspace_config[1], results,
                                   [query EXCEPT !.page = 2]).predictions) = 1
        /\ search_predictions(workspace_config[1], results,
                               [query EXCEPT !.page = 3]).predictions = <<>>

\* x and y have the same key in the sort named sort_by.
\* The numeric value the score of a record is ordered by: its number, and 0
\* when the score is missing or is no number.
ValueOrZero(x) ==
    IF x.pred.val_score.kind = "number" THEN x.pred.val_score.value ELSE 0
\* seq is in the order of the values, in the direction asked for.
InNumericOrder(seq, sort_dir) ==
    \A i, j \in 1..Len(seq) :
        i < j => IF sort_dir = "desc" THEN ValueOrZero(seq[i]) >= ValueOrZero(seq[j])
                 ELSE ValueOrZero(seq[i]) <= ValueOrZero(seq[j])
ScoreQuery(sort_dir) ==
    Query(<<>>, <<>>, <<>>, <<>>, NoDate, NoDate, "val_score", sort_dir, 1, 100)

\* C17: a search sorted by val_score returns the records in the order of
\* the numeric value of val_score, in the direction asked for, a record
\* whose score is missing or cannot be read as a number counting as 0.
C17_NumericOrder ==
    \A sort_dir \in {"asc", "desc"} :
        InNumericOrder(search_filtered(workspace_config[1], results,
                                       ScoreQuery(sort_dir)), sort_dir)

\* C17, the part that holds: when every score is a number, null or missing,
\* the records come in the order of their values, the missing ones as 0.
C17_ReadableScoresOrdered ==
    (\A i \in 1..Len(results) : \A k \in 1..Len(results[i].data) :
        ~float_raises(results[i].data[k].val_score))
    => C17_NumericOrder

KeyEq(sort_by, x, y) == KeyLe(sort_by, x, y) /\ KeyLe(sort_by, y, x)

\* C18: for every sort field, ascending and descending, and for the
\* default order, the records of equal sort key are in the result in their
\* aggregation order (file enumeration order, then position in the array).
C18_SortIsStable ==
    \A query \in SortQueries :
        \A agg \in {aggregate(results, 1)},
           out \in {search_filtered(workspace_config[1], results, query)} :
           /\ Len(out) = Len(agg)
           /\ \A k \in 1..Len(agg) :
                (\A j \in 1..(k - 1) : ~KeyEq(query.sort_by, agg[j], agg[k])) =>
                    SelectSeq(out, LAMBDA x : KeyEq(query.sort_by, x, agg[k]))
                        = SelectSeq(agg, LAMBDA x : KeyEq(query.sort_by, x, agg[k]))

\* C18 witness: a descending sort by val_score that moves a record to the
\* front and leaves two records of equal score, one from each file, behind
\* it in the order of their files.
C18_Witness ==
    LET query == Query(<<>>, <<>>, <<>>, <<>>, NoDate, NoDate, "val_score", "desc", 1, 100)
        agg == aggregate(results, 1)
        out == search_filtered(workspace_config[1], results, query)
    IN /\ Len(out) = 3
       /\ out # agg
       /\ out[1].pred.val_score = Number(95)
       /\ out[2].pred.val_score = Number(62) /\ out[2].file_path = 1
       /\ out[3].pred.val_score = Number(62) /\ out[3].file_path = 2

\* The requests whose filters are checked: q in upper and lower case, an
\* exact value for each of the three fields, and dates with and without a
\* UTC offset.
FilterQueries(dates_from, dates_to) ==
    {Query(q, dataset, model_name, partition, date_from, date_to,
           "none", "desc", 1, 100) :
        q \in {<<>>, <<"A">>, <<"a", "b">>},
        dataset \in {<<>>, <<"b">>},
        model_name \in {<<>>, <<"b">>},
        partition \in {<<>>, <<"a">>},
        date_from \in dates_from,
        date_to \in dates_to}
\* x satisfies every filter query supplies.
Satisfies(x, query) ==
    /\ query.q = <<>>
       \/ \E field \in {x.pred.model_name, x.pred.dataset_name, x.pred.config_name,
                         x.pred.id, x.pred.preprocessings} :
             Contains(lower(query.q), lower(field))
    /\ query.dataset = <<>> \/ x.pred.dataset_name = query.dataset
    /\ query.model_name = <<>> \/ x.pred.model_name = query.model_name
    /\ query.partition = <<>> \/ x.pred.partition = query.partition
    /\ query.date_from.kind = "none" \/ x.file_date >= query.date_from.time
    /\ query.date_to.kind = "none" \/ x.file_date <= query.date_to.time
\* The result of every request of queries holds exactly the records that
\* satisfy all its filters.
Conjunctive(queries) ==
    \A agg \in {aggregate(Glob(workspace_config[1], results), 1)} :
        \A query \in queries :
            search_filtered(workspace_config[1], results, query)
                = sorting(SelectSeq(agg, LAMBDA x : Satisfies(x, query)),
                          query.sort_by, query.sort_dir)

\* C20: a record is in the result of a search exactly when it satisfies
\* every filter of the request: q, in any case, is part of one of
\* model_name, dataset_name, config_name, id, preprocessings; dataset_name,
\* model_name and partition equal the values asked for; the modification
\* time of its file is in [date_from, date_to], both ends included.
C20_FilteringIsConjunctive ==
    Conjunctive(FilterQueries({NoDate, Naive(2), Aware(2)},
                              {NoDate, Naive(1), Aware(1)}))

\* C20, the part that holds: with date_from and date_to left out or given
\* without a UTC offset, the result holds exactly the records that satisfy
\* every filter.
C20_LocalDatesConjunctive ==
    Conjunctive(FilterQueries({NoDate, Naive(1), Naive(2)},
                              {NoDate, Naive(1), Naive(2)}))

\* The files that hold valid JSON, in their order.
ValidFiles(files) == SelectSeq(files, LAMBDA f : f.kind # "invalid")
\* The records of a response without the path of their file.
Records(preds) ==
    [k \in 1..Len(preds) |-> [pred |-> preds[k].pred, file_date |-> preds[k].file_date]]

\* C19: a predictions file with invalid JSON is passed over by search,
\* meta and counts, no error reaching the caller, and the records, the
\* distinct values and the totals are those of the remaining files alone.
C19_InvalidFileSkipped ==
    LET cfg == workspace_config[1]
        valid == ValidFiles(results)
    IN /\ get_predictions_counts(cfg, results) = get_predictions_counts(cfg, valid)
       /\ get_predictions_meta(cfg, results) = get_predictions_meta(cfg, valid)
       /\ \A query \in {DefaultQuery,
                          Query(<<>>, <<>>, <<>>, <<"a">>, NoDate, NoDate,
                                "val_score", "asc", 2, 2),
                          Query(<<"a">>, <<>>, <<>>, <<>>, NoDate, NoDate,
                                "model_name", "desc", 1, 3)} :
            \A all \in {search_predictions(cfg, results, query)},
               rest \in {search_predictions(cfg, valid, query)} :
               /\ all.total = rest.total
               /\ Records(all.predictions) = Records(rest.predictions)

\* C19 witness: a file with invalid JSON in front of a file with records,
\* and a search that returns the records of that second file.
C19_Witness ==
    /\ Len(results) = 2
    /\ results[1].kind = "invalid"
    /\ results[2].kind = "array"
    /\ Len(results[2].data) = 2
    /\ search_predictions(workspace_config[1], results, DefaultQuery).total = 2
    /\ get_predictions_counts(workspace_config[1], results).total = 2

\* The feature sources of a data folder: the feature files of the train
\* side, those of the test side when there is no train side.
FeatureSources(folder) ==
    IF folder.train_x.files # <<>> THEN folder.train_x.files
    ELSE folder.test_x.files
\* The dataset records link_dataset wrote for data folder 1.
LinkedFirst ==
    {workspace_config[1].datasets[i] : i \in
        {k \in 1..Len(workspace_config[1].datasets) :
            workspace_config[1].datasets[k].path = 1}}
\* The record d holds the dimensions the combination mode gives for the
\* sources: the sum of the column counts under concat, the first column
\* count otherwise, and the rows of the first source that has rows.
CombinedDimensions(d, sources, mode) ==
    LET shapes == [i \in 1..Len(sources) |-> inspect_data_file(sources[i])]
        with_rows == SelectSeq(shapes, LAMBDA shape : shape[1] # 0)
    IN /\ d.inspected.num_features =
            IF mode = "concat" THEN sum([i \in 1..Len(shapes) |-> shapes[i][2]])
            ELSE shapes[1][2]
       /\ with_rows # <<>> => d.inspected.num_samples = with_rows[1][1]

\* C21: the record of a linked dataset with several feature sources holds
\* as num_features the sum of the sources' column counts when the mode is
\* concat and the column count of the first source otherwise, and as
\* num_samples the row count of the first source that has rows.
C21_CombinationMode ==
    \A d \in LinkedFirst :
        Len(FeatureSources(dataset_folders[1])) >= 2 =>
            CombinedDimensions(d, FeatureSources(dataset_folders[1]),
                               dataset_folders[1].x_source_mode)

\* C21, the part that holds: the same for a folder whose feature files are
\* all of one side.
C21_OneSideOnly ==
    \A d \in LinkedFirst :
        /\ Len(FeatureSources(dataset_folders[1])) >= 2
        /\ dataset_folders[1].train_x.files = <<>>
            \/ dataset_folders[1].test_x.files = <<>>
        => CombinedDimensions(d, FeatureSources(dataset_folders[1]),
                              dataset_folders[1].x_source_mode)

\* C30: linking a folder with exactly one train-side and exactly one
\* test-side feature file records one source and, in every combination
\* mode, the column count of the train-side file as num_features.
C30_TestSideNotASource ==
    \A d \in LinkedFirst :
        /\ Len(dataset_folders[1].train_x.files) = 1
        /\ Len(dataset_folders[1].test_x.files) = 1
        => /\ d.inspected.sources = 1
           /\ d.inspected.num_features =
                inspect_data_file(dataset_folders[1].train_x.files[1])[2]

\* C22: link_dataset ends with NoWorkspace when nothing is selected, with
\* InvalidPath for a path that does not exist, with UnresolvableDataset for
\* a folder without data files, with AlreadyLinked for a path some dataset
\* has; each of these leaves the catalog in memory and the document on disk
\* as they were; in every other case the dataset is linked, also when its
\* data files cannot be read.
C22_LinkFailures ==
    \A raw \in InspectPaths :
        LET cfg == workspace_config[1]
            out == link_dataset(cfg, raw)
            linked == \E i \in 1..Len(cfg.datasets) : cfg.datasets[i].path = raw.dir
        IN /\ out.val = (IF ~cfg.selected THEN "NoWorkspace"
                         ELSE IF raw.dir = MissingDir THEN "InvalidPath"
                         ELSE IF raw.dir = EmptyDir THEN "UnresolvableDataset"
                         ELSE IF linked THEN "AlreadyLinked"
                         ELSE "linked")
           /\ out.val # "linked" =>
                /\ out.cfg = cfg
                /\ DiskAfter(out, "ok") = workspace_json
           /\ out.val = "linked" =>
                /\ Len(out.cfg.datasets) = Len(cfg.datasets) + 1
                /\ DiskAfter(out, "ok")[cfg.current].datasets = out.cfg.datasets

\* C22 witness: a dataset linked from a folder whose feature files cannot
\* be read (no rows, no columns recorded), in a catalog for which a second
\* link of the folder, a link of a missing path and a link of an empty
\* folder fail.
C22_Witness ==
    LET cfg == workspace_config[1]
    IN /\ cfg.selected
       /\ Len(cfg.datasets) = 1
       /\ cfg.datasets[1].path = 1
       /\ dataset_folders[1].train_x = PathList(<<Unreadable, Unreadable>>)
       /\ dataset_folders[1].test_x = NoRole
       /\ cfg.datasets[1].inspected.num_samples = 0
       /\ cfg.datasets[1].inspected.num_features = 0
       /\ workspace_json[cfg.current].datasets = cfg.datasets
       /\ \A raw \in InspectPaths : link_dataset(cfg, raw).val # "linked"

\* The feature files the resolver reported for a partition of a folder.
FeatureFilesOf(folder, partition) ==
    IF partition = "train" THEN folder.train_x.files ELSE folder.test_x.files
\* The number of feature-file entries of the partition of entry k before it.
PositionAmongFeatures(files, k) ==
    Cardinality({j \in 1..(k - 1) : files[j].type = "x"
                                    /\ files[j].partition = files[k].partition})

\* C25: detect_dataset_files leaves the catalog in memory and the document
\* on disk as they are, whatever the identifier and whatever the resolver
\* does; in the list it returns for a dataset, an entry has a source_id
\* exactly when it is a feature file of a partition for which the resolver
\* reported more than one feature file, and the source_id is then its
\* position, counted from 0, among the feature files of that partition.
C25_DetectFiles ==
    \A id \in DatasetIds, parser \in ParserOutcomes :
        LET cfg == workspace_config[1]
            out == detect_dataset_files(cfg, id, parser)
            files == out.files
        IN /\ out.cfg = cfg
           /\ DiskAfter(out, "ok") = workspace_json
           /\ \A k \in 1..Len(files) :
                LET folder == dataset_folders[cfg.datasets[FirstIndex(cfg.datasets, id)].path]
                    several == files[k].type = "x"
                               /\ Len(FeatureFilesOf(folder, files[k].partition)) > 1
                IN /\ (files[k].source_id # NoSourceId) <=> several
                   /\ several =>
                        /\ files[k].source_id = PositionAmongFeatures(files, k)
                        /\ FeatureFilesOf(folder, files[k].partition)
                                [files[k].source_id + 1] = files[k].path

\* C25 witness: a linked dataset whose folder has three train-side feature
\* files, one test-side feature file and two target files; detection lists
\* the six files, the train-side feature files as sources 0, 1 and 2, the
\* others without a source_id.
C25_Witness ==
    LET cfg == workspace_config[1]
        out == detect_dataset_files(cfg, 1, "ok")
    IN /\ cfg.selected
       /\ Len(cfg.datasets) = 1
       /\ cfg.datasets[1].id = 1
       /\ Len(dataset_folders[1].train_x.files) = 3
       /\ dataset_folders[1].test_x.kind = "str"
       /\ Len(dataset_folders[1].train_y.files) = 2
       /\ dataset_folders[1].train_group = NoRole
       /\ Len(out.files) = 6
       /\ [k \in 1..6 |-> out.files[k].source_id]
            = <<0, 1, 2, NoSourceId, NoSourceId, NoSourceId>>

\* The responses the routes give for an identifier that is absent.
AbsentResponses(cfg, id) ==
    {unlink_dataset_route(unlink_dataset(cfg, id).val),
     detect_dataset_files_route(detect_dataset_files(cfg, id, "ok").val),
     load_dataset_info_route(load_dataset_info(cfg, id, "cfgA", "train_x", "loaded").val),
     refresh_dataset_route(refresh_dataset(cfg, id, "refreshed").val)}
GroupAbsentResponses(cfg, id) ==
    {group_route(rename_group(cfg, id, "nameA").val),
     group_route(delete_group(cfg, id).val),
     group_route(add_dataset_to_group(cfg, id, 1).val),
     group_route(remove_dataset_from_group(cfg, id, 1).val)}

\* C23: for an identifier no dataset, group or prediction carries, every
\* operation answers without success, and its answer differs from the one
\* the operation gives when it fails for an identifier that is present
\* (refresh failed, load failed).
C23_AbsentIdDistinguishable ==
    LET cfg == workspace_config[1]
    IN cfg.selected =>
        /\ \A id \in DatasetIds :
            ~HasId(cfg.datasets, id) =>
                /\ \A r \in AbsentResponses(cfg, id) : r.status # 200
                /\ \A present \in DatasetIds :
                    HasId(cfg.datasets, present) =>
                        /\ refresh_dataset_route(refresh_dataset(cfg, id, "refreshed").val)
                            # refresh_dataset_route(
                                refresh_dataset(cfg, present, "failed").val)
                        /\ load_dataset_info_route(
                                load_dataset_info(cfg, id, "cfgA", "train_x", "loaded").val)
                            # load_dataset_info_route(
                                load_dataset_info(cfg, present, "cfgA", "train_x",
                                                  "handle_data_raised").val)
        /\ \A id \in GroupIds :
            ~HasId(cfg.groups, id) =>
                \A r \in GroupAbsentResponses(cfg, id) : r.status # 200
        /\ \A id \in PredictionIds :
            delete_prediction_route(delete_prediction(cfg, results, id).val).status
                # 200

\* C23, the part that holds: the absent identifier never gets a success
\* answer, and loadDatasetInfo words it differently from a failed load.
C23_AbsentIdNoSuccess ==
    LET cfg == workspace_config[1]
    IN cfg.selected =>
        /\ \A id \in DatasetIds :
            ~HasId(cfg.datasets, id) =>
                /\ \A r \in AbsentResponses(cfg, id) : r.status # 200
                /\ \A present \in DatasetIds :
                    HasId(cfg.datasets, present) =>
                        load_dataset_info_route(
                            load_dataset_info(cfg, id, "cfgA", "train_x", "loaded").val)
                        # load_dataset_info_route(
                            load_dataset_info(cfg, present, "cfgA", "train_x",
                                              "handle_data_raised").val)
        /\ \A id \in GroupIds :
            ~HasId(cfg.groups, id) =>
                \A r \in GroupAbsentResponses(cfg, id) : r.status # 200

\* C24: unlink_dataset changes the datasets list and nothing else: the
\* groups, with their names and dataset_ids, the pipelines and the selected
\* path are the same after the call, in memory and in the document written,
\* so a group that held the identifier of the removed dataset still holds it.
C24_UnlinkLeavesGroups ==
    \A id \in DatasetIds :
        LET cfg == workspace_config[1]
            out == unlink_dataset(cfg, id)
        IN /\ out.cfg = [cfg EXCEPT !.datasets = out.cfg.datasets]
           /\ out.cfg.groups = cfg.groups
           /\ out.val = "true" =>
                /\ DiskAfter(out, "ok")[cfg.current].groups = cfg.groups
                /\ DiskAfter(out, "ok")[cfg.current].pipelines = cfg.pipelines
                /\ \A g \in 1..Len(cfg.groups) :
                    Member(id, cfg.groups[g].dataset_ids) =>
                        /\ Member(id, out.cfg.groups[g].dataset_ids)
                        /\ ~HasId(out.cfg.datasets, id)

\* C24 witness: a group holds the identifier of a linked dataset, and
\* unlinking that dataset succeeds.
C24_Witness ==
    LET cfg == workspace_config[1]
    IN /\ cfg.selected
       /\ Len(cfg.datasets) = 2
       /\ Len(cfg.groups) = 1
       /\ cfg.groups[1].dataset_ids = <<2, 1>>
       /\ unlink_dataset(cfg, 1).val = "true"
       /\ Len(unlink_dataset(cfg, 1).cfg.datasets) = 1
       /\ unlink_dataset(cfg, 1).cfg.groups[1].dataset_ids = <<2, 1>>

\* The pairs of link requests for two different data folders that no
\* dataset of the catalog has.
FreshPairs(cfg) ==
    {pair \in RawPaths \X RawPaths :
        /\ pair[1].dir \in DataDirs /\ pair[2].dir \in DataDirs
        /\ pair[1].dir # pair[2].dir
        /\ ~HasPath(cfg.datasets, pair[1].dir)
        /\ ~HasPath(cfg.datasets, pair[2].dir)}
BothLinked(o) == o.vals[1] = "linked" /\ o.vals[2] = "linked"

Sanitized(name) ==
    [i \in 1..Len(name) |->
        IF name[i] \in {"a", "7", "-", "_"} THEN name[i] ELSE "_"]

\* C27: saving a pipeline named n writes the file pipelines/<s>.json and
\* returns the id s, s being n with every character outside [A-Za-z0-9_-]
\* replaced by "_" and every character inside it kept.
C27_SanitizedName ==
    \A name \in PipelineNames :
        LET out == save_pipeline(workspace_config[1], pipeline_files, name)
        IN /\ out.val = "saved"
           /\ out.id = Sanitized(name)
           /\ Sanitized(name) \in out.files

\* C27, the part that holds: the same for the names written in ASCII.
C27_AsciiNames ==
    \A name \in PipelineNames :
        (\A i \in 1..Len(name) : name[i] # "é") =>
            LET out == save_pipeline(workspace_config[1], pipeline_files, name)
            IN /\ out.val = "saved"
               /\ out.id = Sanitized(name)
               /\ Sanitized(name) \in out.files

\* The folders of the Dataset records that carry the identifier.
Denoted(cfg, id) ==
    {cfg.datasets[i].path : i \in {j \in 1..Len(cfg.datasets) : cfg.datasets[j].id = id}}

\* The identifiers that a group of the catalog holds.
HeldByGroups(cfg) ==
    IF cfg.selected
    THEN {id \in DatasetIds :
            \E g \in 1..Len(cfg.groups) : Member(id, cfg.groups[g].dataset_ids)}
    ELSE {}

\* C28: an identifier held in a group's dataset_ids never comes to denote a
\* different dataset: over every step at which a group keeps the identifier,
\* the records that carry it afterwards carried it before, so it refers to
\* the record it referred to or to none, never to a Dataset linked later.
C28_GroupIdsKeepMeaning ==
    [][\A id \in HeldByGroups(workspace_config[1]) \cap HeldByGroups(workspace_config'[1]) :
          Denoted(workspace_config'[1], id) \subseteq Denoted(workspace_config[1], id)]_vars

\* The counts of the datasets listing, summed.
RECURSIVE ListingTotal(_, _)
ListingTotal(datasets, i) ==
    IF i > Len(datasets) THEN 0
    ELSE datasets[i].count + ListingTotal(datasets, i + 1)

\* C29: each predictions file contributes to a query all of its array
\* elements or none: the total of counts equals the total of a search
\* without filters, and both equal the sum of the counts of the datasets
\* listing, also with a file that holds another JSON value than an array
\* or an array with an element that is not a mapping.
C29_AllOrNone ==
    LET cfg == workspace_config[1]
        counted == get_predictions_counts(cfg, results).total
        found == search_predictions(cfg, results, DefaultQuery).total
        listed == ListingTotal(get_predictions_datasets(cfg, results).datasets, 1)
    IN /\ counted = found
       /\ counted = listed

\* C29, the part that holds: the three totals agree when every element of
\* every array is a mapping, whatever the other files hold.
C29_ArraysOfMappings ==
    LET cfg == workspace_config[1]
        counted == get_predictions_counts(cfg, results).total
        found == search_predictions(cfg, results, DefaultQuery).total
        listed == ListingTotal(get_predictions_datasets(cfg, results).datasets, 1)
    IN (\A i \in 1..Len(results) : \A k \in 1..Len(results[i].data) :
            IsMapping(results[i].data[k]))
        => /\ counted = found
           /\ counted = listed

====
